---- MODULE Spec2Model ----
(***************************************************************************)
(* Environmental-data resolution pipeline of the crop recommender:         *)
(* get_climate_data (future-date normalisation and the bounded year walk   *)
(* with the secondary precipitation provider), get_soil_data and           *)
(* get_location_info (the four-section report).                            *)
(*                                                                         *)
(* Python values are tagged records, so that values of different Python    *)
(* types can be compared: None, numbers (exact rationals num/den), strings *)
(* (the sequence of their pieces: literals are one piece, formatted parts  *)
(* one piece per character) and dicts (functions from keys to values).     *)
(***************************************************************************)
EXTENDS Integers, Sequences, FiniteSets, TLC

\* ------------------------------------------------------------------ bounds

\* datetime.now() of the run: its year and its month.
NowYears == {2026}
NowMonths == {6}
\* Requested months: before, at and after the current month; February has
\* the leap-year window.
Months == {2, 6, 11}
\* Requested years: the year before the current one .. the current year +
\* MaxYearsAhead.
MaxYearsAhead == 1
\* Look-back budgets of a direct call of get_climate_data:
\* -MaxNegBudget .. MaxBudget.
MaxNegBudget == 1
MaxBudget == 2
\* Requested years close to the first year datetime has.
EarlyYears == {1, 2}
\* The days of a window in a provider's daily series (the series of a real
\* window has 28 to 31), and the daily readings a series holds.
MaxDays == 2
Readings == {4}
AltReadings == {0, 4}
\* The month tried for get_location_info, and how far ahead of the current
\* year its year is.
ReportMonths == {2}
ReportYearsAhead == {1}
\* Readings of the current-weather and terrain providers.
WeatherReading == 20
ElevationReading == 120

\* The reference files of the dataset folder: at most MaxFiles files, each
\* with the rows of one of TableLengths lengths; a row is of one of
\* CropNames and has one of CropReadings.
MaxFiles == 2
TableLengths == {0, 1, 2}
CropNames == {"maize", "rice"}
CropReadings ==
    {[Temperature |-> 20, Humidity |-> 50, pH |-> 6, Rainfall |-> 100],
     [Temperature |-> 30, Humidity |-> 70, pH |-> 7, Rainfall |-> 200]}
\* The identifier columns the files have.
Schemas ==
    {{}, {"label"}, {"plant_name"}, {"crop", "plant_name"}, {"common_name", "crop"},
     {"label", "crop", "common_name", "plant_name"}}
\* The profile sets scored: one or two crops in either order, each with
\* optima out of these.
ProfileTemperatures == {20, 30}
ProfileHumidities == {50, 70}
\* The sensor vectors scored: these temperatures with the other fields fixed,
\* and against each the vector with one field moved by one of SensorShifts.
SensorTemperatures == {20, 25, -50}
SensorShifts == {-1, 1}
\* The pressure of the second vector against the 1013 of the first: 900, the
\* least the prompt accepts, and 850.
PressureShifts == {-113, -163}

\* The workflows: the names a selection is made of, the answers to a prompt
\* (no number, a number within the range of every field but P, one within
\* the ranges of P and AP alone), and the number of answers turned down in a
\* run, at most MaxRejected.
SelectableNames == {"maize", "rice", "zea"}
PromptTexts == {<<"abc">>, <<"7">>, <<"1", "0", "0", "0">>}
MaxRejected == 1

\* ------------------------------------------------------------- program constants

SENTINEL == -999
\* datetime.MINYEAR: datetime(y, m, d) raises ValueError for y < 1.
MINYEAR == 1
DefaultMaxYearsBack == 5
DefaultDepth == "0-5cm"
SoilProperties == <<"phh2o", "soc", "clay", "silt", "sand", "cec", "cfvo">>

\* ------------------------------------------------------------------ values

None == [none |-> TRUE]
Unset == [unset |-> TRUE]

RECURSIVE GCD(_, _)
GCD(a, b) == IF b = 0 THEN a ELSE GCD(b, a % b)

Abs(n) == IF n < 0 THEN -n ELSE n

\* The number n / d (d > 0), in lowest terms.
Num(n, d) == LET g == GCD(Abs(n), d) IN [num |-> n \div g, den |-> d \div g]

IntNum(n) == Num(n, 1)

Str(pieces) == [str |-> pieces]

Lit(s) == Str(<<s>>)

\* The empty string.
EmptyStr == Str(<<>>)

Dict(f) == [dict |-> f]

EmptyDict == [k \in {} |-> None]

IsNum(v) == DOMAIN v = {"num", "den"}

IsStr(v) == DOMAIN v = {"str"}

IsDict(v) == DOMAIN v = {"dict"}

NoData == Lit("No data")

RECURSIVE SeqSum(_)
SeqSum(s) == IF s = <<>> THEN 0 ELSE Head(s) + SeqSum(Tail(s))

\* [v for v in series if v != -999.0]
FilterSentinel(s) == SelectSeq(s, LAMBDA v : v # SENTINEL)

\* ------------------------------------------------------------------ text

DigitChars == <<"0", "1", "2", "3", "4", "5", "6", "7", "8", "9">>

RECURSIVE Pow10(_)
Pow10(k) == IF k = 0 THEN 1 ELSE 10 * Pow10(k - 1)

\* strftime's %Y, %m, %d: n as exactly w digits, zero padded.
Pad(n, w) == [i \in 1..w |-> DigitChars[((n \div Pow10(w - i)) % 10) + 1]]

RECURSIVE NatStr(_)
NatStr(n) == IF n < 10 THEN <<DigitChars[n + 1]>>
             ELSE NatStr(n \div 10) \o <<DigitChars[(n % 10) + 1]>>

\* str(n) of an int, as in an f-string.
IntStr(n) == IF n < 0 THEN <<"-">> \o NatStr(-n) ELSE NatStr(n)

\* ------------------------------------------------------------------ calendar

IsLeap(y) == (y % 4 = 0) /\ ((y % 100 # 0) \/ (y % 400 = 0))

\* calendar.monthrange(y, m)[1]
MonthLastDay(y, m) ==
    IF m = 2 THEN (IF IsLeap(y) THEN 29 ELSE 28)
    ELSE IF m \in {4, 6, 9, 11} THEN 30 ELSE 31

\* datetime(y, m, d).strftime("%Y%m%d") of a year of four digits.
StrfYmd(y, m, d) == Pad(y, 4) \o Pad(m, 2) \o Pad(d, 2)

\* %Y of a year below 1000 is the C library's: padded to four digits by
\* some, written as it is by others (glibc).
YearPaddings(y) == IF y < 1000 THEN BOOLEAN ELSE {TRUE}

\* datetime(y, m, d).strftime("%Y%m%d") with the library's padding.
StrfTime(y, m, d, padded) ==
    IF padded THEN StrfYmd(y, m, d) ELSE IntStr(y) \o Pad(m, 2) \o Pad(d, 2)

\* f"{s[:4]}-{s[4:6]}-{s[6:]}"
\* s[lo:hi] of a string: the bounds are clipped to its length.
Slice(s, lo, hi) ==
    LET from == IF lo > Len(s) THEN Len(s) ELSE lo
        to == IF hi > Len(s) THEN Len(s) ELSE hi
    IN SubSeq(s, from + 1, to)

AltDate(s) == Slice(s, 0, 4) \o <<"-">> \o Slice(s, 4, 6) \o <<"-">> \o Slice(s, 6, Len(s))

\* ------------------------------------------------------------------ providers

\* What fetch_api can hand back for the primary climate request: nothing, a
\* body without "properties", one without "parameter" under it, or the
\* parameter mapping, in which each of T2M and PRECTOT is missing or a series.
\* (A series that is there and empty reads as a missing one: .get(key, {}).)
Series == [1..MaxDays -> Readings \cup {SENTINEL}]

ParameterMaps == UNION {[K -> Series] : K \in SUBSET {"T2M", "PRECTOT"}}

PrimaryResponses ==
    {[kind |-> "absent", parameter |-> EmptyDict],
     [kind |-> "no_properties", parameter |-> EmptyDict],
     [kind |-> "no_parameter", parameter |-> EmptyDict]}
    \cup {[kind |-> "structured", parameter |-> p] : p \in ParameterMaps}

\* What fetch_api can hand back for the secondary precipitation request.
SecondaryResponses ==
    {[kind |-> "absent", precipitation_sum |-> <<>>],
     [kind |-> "no_daily", precipitation_sum |-> <<>>],
     [kind |-> "no_precipitation_sum", precipitation_sum |-> <<>>]}
    \cup {[kind |-> "daily", precipitation_sum |-> s] :
            s \in {<<>>} \cup [1..MaxDays -> AltReadings]}

\* parameters.get(key, {}).values()
ParamGet(parameters, key) == IF key \in DOMAIN parameters THEN parameters[key] ELSE <<>>

\* The value get_alternative_precipitation returns for a response.
AlternativePrecipitation(response) ==
    IF response.kind = "daily" /\ response.precipitation_sum # <<>>
    THEN IntNum(SeqSum(response.precipitation_sum))
    ELSE NoData

\* The query get_alternative_precipitation sends for a primary window.
AlternativeParams(start_date, end_date) ==
    [start_date |-> AltDate(start_date), end_date |-> AltDate(end_date)]

\* The condition of lines 78-79.
IsStructured(response) == response.kind = "structured"

\* avg_t2m of one attempt.
AvgT2M(parameters) ==
    LET valid_t2m == FilterSentinel(ParamGet(parameters, "T2M"))
    IN IF valid_t2m # <<>> THEN Num(SeqSum(valid_t2m), Len(valid_t2m)) ELSE NoData

\* valid_prectot of one attempt.
ValidPrectot(parameters) == FilterSentinel(ParamGet(parameters, "PRECTOT"))

\* The secondary is asked in every structured attempt.
AsksSecondaryAlways(response) == response.kind = "structured"

\* Lines 86-90: whether the attempt goes to the secondary provider.
AsksSecondary(response) == IsStructured(response) /\ ValidPrectot(response.parameter) = <<>>

\* The primary's sentinel-filtered sum, also when nothing survives the filter.
TotalPrectotPrimaryOnly(parameters, alt) ==
    LET series == IF "PRECTOT" \in DOMAIN parameters THEN parameters["PRECTOT"] ELSE <<>>
    IN IntNum(SeqSum(SelectSeq(series, LAMBDA v : v # SENTINEL)))

\* total_prectot of one attempt; alt is the secondary's answer when it is asked.
TotalPrectot(parameters, alt) ==
    IF ValidPrectot(parameters) # <<>>
    THEN IntNum(SeqSum(ValidPrectot(parameters)))
    ELSE AlternativePrecipitation(alt)

\* A record counts only with both fields.
UsableBoth(avg, total) == avg # NoData /\ total # NoData

\* Every structured attempt counts.
UsableAlways(avg, total) == TRUE

\* The condition of line 91.
Usable(avg, total) == avg # NoData \/ total # NoData

\* The record of lines 92-96.
ClimateRecord(start_date, end_date, avg, total) ==
    Dict(("Date Range" :> Str(start_date \o <<" to ">> \o end_date))
         @@ ("Average Temperature (T2M)" :> avg)
         @@ ("Total Precipitation (PRECTOT)" :> total))

\* The error record with the month and the search depth swapped.
ClimateErrorSwapped(m, budget, y) ==
    Dict("Error" :> Str(<<"No climate data for month ">> \o IntStr(budget) \o <<" in past ">>
                        \o IntStr(m) \o <<" years from ">> \o IntStr(y) \o <<".">>))

\* The record of line 99.
ClimateError(m, budget, y) ==
    Dict("Error" :> Str(<<"No climate data for month ">> \o IntStr(m) \o <<" in past ">>
                        \o IntStr(budget) \o <<" years from ">> \o IntStr(y) \o <<".">>))

\* The loop condition with an off-by-one budget.
LoopConditionInclusive(n, budget) == n <= budget

\* The condition of the while loop of line 62.
LoopCondition(n, budget) == n < budget

\* The future test without the month of the current year.
InFutureYearOnly(y, m, cy, cm) == y > cy

\* The condition of the while loop of line 58.
InFuture(y, m, cy, cm) == y > cy \/ (y = cy /\ m > cm)



\* ------------------------------------------------------------------ dicts and lists

\* d.get(k, default) of a dict.
Get(d, k, default) == IF k \in DOMAIN d.dict THEN d.dict[k] ELSE default

List(s) == [list |-> s]

\* Python's truth value of a response or a dict.
Truthy(v) == IF v = None THEN FALSE
             ELSE IF IsDict(v) THEN DOMAIN v.dict # {}
             ELSE TRUE

\* d[k] = v
Put(d, k, v) == (k :> v) @@ d

\* ------------------------------------------------------------------ weather, soil, terrain

\* What fetch_api can hand back for the current-weather request: nothing, or a
\* body with or without "name" and "main", "main" holding some of the readings.
\* (The provider names a place without a name "".)
WeatherMains ==
    {Dict(m) : m \in UNION {[K -> {IntNum(WeatherReading)}] :
                              K \in {{"humidity"}, {"temp", "humidity", "pressure"}}}}

WeatherResponses ==
    {None, Dict(EmptyDict), Dict("name" :> Lit("Town"))}
    \cup {Dict("main" :> m) : m \in WeatherMains}
    \cup {Dict(("name" :> Lit("Town")) @@ ("main" :> m)) : m \in WeatherMains}
    \cup {Dict(("name" :> EmptyStr) @@ ("main" :> m)) : m \in WeatherMains}

\* The weather section asks for the location name as well.
WeatherSectionNeedsName(weather_response) ==
    IF /\ weather_response # None
       /\ "main" \in DOMAIN weather_response.dict
       /\ "name" \in DOMAIN weather_response.dict
    THEN LET main == weather_response.dict["main"]
         IN Dict(("Location" :> weather_response.dict["name"])
                 @@ ("Temperature" :> Get(main, "temp", NoData))
                 @@ ("Humidity" :> Get(main, "humidity", NoData))
                 @@ ("Pressure" :> Get(main, "pressure", NoData)))
    ELSE Lit("No weather data retrieved.")

\* Lines 140-149: the "Weather Data" section for a response.
WeatherSection(weather_response) ==
    IF Truthy(weather_response) /\ "main" \in DOMAIN weather_response.dict
    THEN LET main == weather_response.dict["main"]
         IN Dict(("Location" :> Get(weather_response, "name", Lit("Unknown")))
                 @@ ("Temperature" :> Get(main, "temp", NoData))
                 @@ ("Humidity" :> Get(main, "humidity", NoData))
                 @@ ("Pressure" :> Get(main, "pressure", NoData)))
    ELSE Lit("No weather data retrieved.")

\* What fetch_api can hand back for the terrain request.
TerrainResponses ==
    {None, Dict(EmptyDict),
     Dict("results" :> List(<<>>)),
     Dict("results" :> List(<<Dict(EmptyDict)>>)),
     Dict("results" :> List(<<Dict("elevation" :> IntNum(ElevationReading))>>))}

\* A failed terrain fetch leaves the section without a value.
ElevationSectionNone(terrain_response) ==
    IF /\ terrain_response # None
       /\ "results" \in DOMAIN terrain_response.dict
       /\ Len(terrain_response.dict["results"].list) > 0
    THEN Dict("Elevation (meters)" :>
                Get(terrain_response.dict["results"].list[1], "elevation", NoData))
    ELSE None

\* Lines 153-157: the "Elevation Data" section for a response.
ElevationSection(terrain_response) ==
    IF /\ Truthy(terrain_response)
       /\ "results" \in DOMAIN terrain_response.dict
       /\ Len(terrain_response.dict["results"].list) > 0
    THEN Dict("Elevation (meters)" :>
                Get(terrain_response.dict["results"].list[1], "elevation", NoData))
    ELSE Lit("No elevation data retrieved.")

\* The mean the soil provider reports for the i-th property.
SoilMean(i) == IntNum(40 + i)

\* What fetch_api can hand back for the request of the i-th soil property,
\* each answer with the mean it carries for that property (None: it carries
\* none): nothing, a body without features, and a first feature whose
\* properties lack the property, the depth band or the mean, or hold it.
SoilAnswers(i) ==
    LET prop == SoilProperties[i]
        Feature(properties) ==
            Dict("features" :> List(<<Dict("properties" :> Dict(properties))>>))
    IN {[response |-> None, mean |-> None],
        [response |-> Dict(EmptyDict), mean |-> None],
        [response |-> Dict("type" :> Lit("FeatureCollection")), mean |-> None],
        [response |-> Dict("features" :> List(<<>>)), mean |-> None],
        [response |-> Feature(EmptyDict), mean |-> None],
        [response |-> Feature(prop :> Dict(EmptyDict)), mean |-> None],
        [response |-> Feature(prop :> Dict(DefaultDepth :> Dict(EmptyDict))), mean |-> None],
        [response |-> Feature(prop :> Dict(DefaultDepth :> Dict("mean" :> None))), mean |-> None],
        [response |-> Feature(prop :> Dict(DefaultDepth :> Dict("mean" :> SoilMean(i)))),
         mean |-> SoilMean(i)]}

\* A property without an answer is stored as 0.
SoilValueZero(response, prop, depth) ==
    IF /\ response # None
       /\ "features" \in DOMAIN response.dict
       /\ Len(response.dict["features"].list) > 0
    THEN Get(Get(Get(response.dict["features"].list[1].dict["properties"],
                     prop, Dict(EmptyDict)),
                 depth, Dict(EmptyDict)),
             "mean", None)
    ELSE IntNum(0)

\* Lines 124-127: the value get_soil_data stores for a property.
SoilValue(response, prop, depth) ==
    IF /\ Truthy(response)
       /\ "features" \in DOMAIN response.dict
       /\ Len(response.dict["features"].list) > 0
    THEN Get(Get(Get(response.dict["features"].list[1].dict["properties"],
                     prop, Dict(EmptyDict)),
                 depth, Dict(EmptyDict)),
             "mean", None)
    ELSE None

\* Line 151: the "Soil Data (Depth 0-5cm)" section.
SoilSection(soil_response) ==
    IF Truthy(soil_response) THEN soil_response ELSE Lit("No soil data retrieved.")

\* ------------------------------------------------------------------ the report file

\* The sections of the report literal of lines 137-158, in insertion order.
SectionOrder ==
    <<"Climate Data", "Weather Data", "Soil Data (Depth 0-5cm)", "Elevation Data">>

\* The keys the mapping sections can hold, each section's in insertion order.
KeyOrder ==
    <<"Date Range", "Average Temperature (T2M)", "Total Precipitation (PRECTOT)", "Error",
      "Location", "Temperature", "Humidity", "Pressure">>
    \o SoilProperties \o <<"Elevation (meters)">>

\* The digits after the decimal point of r / d (0 <= r < d), for a fraction
\* that ends.
RECURSIVE FractionDigits(_, _)
FractionDigits(r, d) ==
    IF r = 0 THEN <<>>
    ELSE <<DigitChars[((10 * r) \div d) + 1]>> \o FractionDigits((10 * r) % d, d)

\* str(v) of a string, a number or None.  (A float of integral value is
\* written with a trailing ".0", which float() reads as the same number; the
\* numbers here do not tell an int from such a float.)
PyStr(v) ==
    IF IsStr(v) THEN v
    ELSE IF IsNum(v)
         THEN LET a == Abs(v.num)
                  whole == (IF v.num < 0 THEN <<"-">> ELSE <<>>) \o NatStr(a \div v.den)
              IN Str(IF a % v.den = 0 THEN whole
                     ELSE whole \o <<".">> \o FractionDigits(a % v.den, v.den))
         ELSE Lit("None")

\* None is written as str(None).
CellNoneAsText(value) == PyStr(value)

\* Line 168: value = '' if value is None else str(value)
Cell(value) == IF value = None THEN EmptyStr ELSE PyStr(value)

\* Lines 166-171: the rows written for one section.
SectionRows(section, data) ==
    IF IsDict(data)
    THEN LET keys == SelectSeq(KeyOrder, LAMBDA k : k \in DOMAIN data.dict)
         IN [i \in 1..Len(keys) |-> <<section, keys[i], Cell(data.dict[keys[i]])>>]
    ELSE << <<section, "", PyStr(data)>> >>

\* Lines 164-171: the header and the rows of every section of rep.
RECURSIVE RowsFrom(_, _)
RowsFrom(rep, i) ==
    IF i > Len(SectionOrder) THEN <<>>
    ELSE (IF SectionOrder[i] \in DOMAIN rep
          THEN SectionRows(SectionOrder[i], rep[SectionOrder[i]])
          ELSE <<>>) \o RowsFrom(rep, i + 1)

ExportRows(rep) == << <<"Section", "Key", Lit("Value")>> >> \o RowsFrom(rep, 1)

\* An empty value is kept as the empty string.
CellValueKept(value) == value

\* Lines 192, 194: value if value else None
CellValue(value) == IF value # EmptyStr THEN value ELSE None

\* Lines 187-194: the report after the rows from the i-th on.  A keyed row
\* under a section that holds a string stops the reading (the item assignment
\* raises, line 198 reports it) with what was read so far.
RECURSIVE ReadFrom(_, _, _)
ReadFrom(rows, i, rep) ==
    IF i > Len(rows) THEN rep
    ELSE LET section == rows[i][1]
             key == rows[i][2]
             value == rows[i][3]
             opened == IF section \notin DOMAIN rep
                       THEN Put(rep, section, Dict(EmptyDict)) ELSE rep
         IN IF key # ""
            THEN IF IsDict(opened[section])
                 THEN ReadFrom(rows, i + 1,
                               Put(opened, section,
                                   Dict(Put(opened[section].dict, key, CellValue(value)))))
                 ELSE opened
            ELSE ReadFrom(rows, i + 1, Put(opened, section, CellValue(value)))

\* Lines 181-199: next(reader) skips the header.
ReadRows(rows) == ReadFrom(rows, 2, EmptyDict)

\* ------------------------------------------------------------------ the sensor vector

\* Lines 267-274: the sensor fields in order, and where each is read from.
SensorKeys == <<"T", "H", "P", "T_avg", "AP", "pH">>

SensorSource ==
    [T |-> <<"Weather Data", "Temperature">>,
     H |-> <<"Weather Data", "Humidity">>,
     P |-> <<"Weather Data", "Pressure">>,
     T_avg |-> <<"Climate Data", "Average Temperature (T2M)">>,
     AP |-> <<"Climate Data", "Total Precipitation (PRECTOT)">>,
     pH |-> <<"Soil Data (Depth 0-5cm)", "phh2o">>]

IsDigit(c) == \E d \in 1..10 : DigitChars[d] = c

RECURSIVE DigitsValue(_)
DigitsValue(s) ==
    IF s = <<>> THEN 0
    ELSE 10 * DigitsValue(SubSeq(s, 1, Len(s) - 1))
         + (CHOOSE d \in 0..9 : DigitChars[d + 1] = s[Len(s)])

\* The text after an optional sign.
Unsigned(s) == IF s # <<>> /\ Head(s) = "-" THEN Tail(s) ELSE s

\* float(s) accepts the text: digits with at most one point among them.
IsFloatText(s) ==
    LET body == Unsigned(s)
        points == {i \in DOMAIN body : body[i] = "."}
    IN /\ Cardinality(points) <= 1
       /\ \A i \in DOMAIN body \ points : IsDigit(body[i])
       /\ DOMAIN body \ points # {}

\* float(s) of such a text.
FloatOf(s) ==
    LET body == Unsigned(s)
        digits == SelectSeq(body, LAMBDA c : c # ".")
        decimals == IF \E i \in DOMAIN body : body[i] = "."
                    THEN Len(body) - (CHOOSE i \in DOMAIN body : body[i] = ".")
                    ELSE 0
        value == Num(DigitsValue(digits), Pow10(decimals))
    IN IF s # <<>> /\ Head(s) = "-" THEN Num(0 - value.num, value.den) ELSE value

\* Lines 278-280: float(value) if value and value.strip() else None, with the
\* ValueError of a text that is not a number caught.
SensorValue(value) ==
    IF value # None /\ value # EmptyStr
    THEN (IF IsFloatText(value.str) THEN FloatOf(value.str) ELSE None)
    ELSE None

\* Line 277: report.get(section, {}).
SectionOf(rep, section) == IF section \in DOMAIN rep THEN rep[section] ELSE Dict(EmptyDict)

\* Line 277 calls .get on the section: a section that is a string or None has
\* no such attribute, and the AttributeError is not among the exceptions line
\* 279 catches.
RaisesAttributeError(rep) ==
    \E i \in DOMAIN SensorKeys : ~IsDict(SectionOf(rep, SensorSource[SensorKeys[i]][1]))

\* Lines 265-281: the vector get_sensor_data_from_report returns when no
\* section raises.
SensorVector(rep) ==
    [k \in {SensorKeys[i] : i \in DOMAIN SensorKeys} |->
        SensorValue(Get(SectionOf(rep, SensorSource[k][1]), SensorSource[k][2], None))]

\* ------------------------------------------------------------------ arithmetic

LCM(a, b) == (a \div GCD(a, b)) * b

RatAdd(a, b) ==
    LET l == LCM(a.den, b.den)
    IN Num(a.num * (l \div a.den) + b.num * (l \div b.den), l)

RatSub(a, b) == RatAdd(a, Num(0 - b.num, b.den))

RatMul(a, b) ==
    LET g == GCD(Abs(a.num), b.den)
        h == GCD(Abs(b.num), a.den)
    IN Num((a.num \div g) * (b.num \div h), (a.den \div h) * (b.den \div g))

\* a / b for b > 0.
RatDiv(a, b) == RatMul(a, Num(b.den, b.num))

RatLess(a, b) ==
    LET l == LCM(a.den, b.den)
    IN a.num * (l \div a.den) < b.num * (l \div b.den)

\* ------------------------------------------------------------------ the reference data

\* Line 229: the candidate grouping columns, in priority order.
GroupColumns == <<"label", "crop", "common_name", "plant_name">>

\* The candidate columns tried last first.
GroupColLastFirst(columns) ==
    IF \E i \in DOMAIN GroupColumns : GroupColumns[i] \in columns
    THEN GroupColumns[CHOOSE i \in DOMAIN GroupColumns :
                        /\ GroupColumns[i] \in columns
                        /\ \A j \in DOMAIN GroupColumns : GroupColumns[j] \in columns => j <= i]
    ELSE ""

\* Line 229: next((col for col in [...] if col in df.columns), None); None
\* is the empty name here ("if not group_col" holds of both).
GroupCol(columns) ==
    IF \E i \in DOMAIN GroupColumns : GroupColumns[i] \in columns
    THEN GroupColumns[CHOOSE i \in DOMAIN GroupColumns :
                        /\ GroupColumns[i] \in columns
                        /\ \A j \in DOMAIN GroupColumns : GroupColumns[j] \in columns => i <= j]
    ELSE ""

\* The crops of the reference files: the common name a row has under
\* "label" and "common_name", and the botanical one it has under "crop" and
\* "plant_name".
Botanical == [maize |-> "zea", rice |-> "oryza"]

\* Every identifier, in the order sorted() and groupby put them.
CropOrder == <<"maize", "oryza", "rice", "zea">>

\* df[col] of a row, for an identifier column.
ColumnValue(row, col) ==
    IF col \in {"label", "common_name"} THEN row.name ELSE Botanical[row.name]

RECURSIVE Concat(_)
Concat(tables) == IF tables = <<>> THEN <<>> ELSE Head(tables) \o Concat(Tail(tables))

\* Only the first file is kept.
LoadFirstFileOnly(folder) ==
    LET dfs == SelectSeq(folder.tables, LAMBDA t : t # <<>>)
    IN IF folder.tables = <<>> \/ dfs = <<>> THEN None
       ELSE [columns |-> folder.columns, rows |-> Head(dfs)]

\* Lines 202-212: load_local_crop_datasets over a folder whose files hold the
\* given tables, all with the same columns.
LoadLocalCropDatasets(folder) ==
    LET dfs == SelectSeq(folder.tables, LAMBDA t : t # <<>>)
    IN IF folder.tables = <<>> \/ dfs = <<>> THEN None
       ELSE [columns |-> folder.columns, rows |-> Concat(dfs)]

\* group[column].mean()
Mean(rows, column) ==
    Num(SeqSum([i \in DOMAIN rows |-> rows[i][column]]), Len(rows))

\* Lines 232-241: the profile of every group, in the order of the groups.
ComputeOptimalConditions(tbl) ==
    LET group_col == GroupCol(tbl.columns)
        Of(crop) == SelectSeq(tbl.rows, LAMBDA r : ColumnValue(r, group_col) = crop)
        crops == SelectSeq(CropOrder, LAMBDA c : Of(c) # <<>>)
    IN [i \in DOMAIN crops |->
          [crop |-> crops[i],
           optimal |-> [T_opt |-> Mean(Of(crops[i]), "Temperature"),
                        H_opt |-> Mean(Of(crops[i]), "Humidity"),
                        pH_opt |-> Mean(Of(crops[i]), "pH"),
                        AP_opt |-> Mean(Of(crops[i]), "Rainfall")]]]

\* ------------------------------------------------------------------ scoring

P_opt == 1013

\* exp(-x) of a double is positive up to x = UnderflowHundredths / 100, and
\* is 0.0 from the next hundredth on.
UnderflowHundredths == 74513

\* Lines 503-518: the sigmas and weights of the application.
AppParams ==
    [sigma_T |-> IntNum(2), sigma_H |-> IntNum(10), sigma_P |-> IntNum(10),
     sigma_Tavg |-> IntNum(2), sigma_AP |-> IntNum(20), sigma_pH |-> Num(1, 2),
     w_T |-> Num(35, 100), w_H |-> Num(30, 100), w_P |-> Num(5, 100),
     w_Tavg |-> Num(15, 100), w_AP |-> Num(10, 100), w_pH |-> Num(5, 100)]

\* The difference is not squared.
DiffLinear(s, o, sigma) ==
    RatDiv(RatSub(s, o), RatMul(IntNum(2), RatMul(sigma, sigma)))

\* Lines 251-256: (s - o)**2 / (2 * sigma**2)
Diff(s, o, sigma) ==
    RatDiv(RatMul(RatSub(s, o), RatSub(s, o)), RatMul(IntNum(2), RatMul(sigma, sigma)))

\* Lines 245-262: the exponent of plant_fitness.
Exponent(sensor, optimal, p) ==
    LET T_avg_opt == optimal.T_opt
        diff_T == Diff(sensor["T"], optimal.T_opt, p.sigma_T)
        diff_H == Diff(sensor["H"], optimal.H_opt, p.sigma_H)
        diff_P == Diff(sensor["P"], IntNum(P_opt), p.sigma_P)
        diff_Tavg == Diff(sensor["T_avg"], T_avg_opt, p.sigma_Tavg)
        diff_AP == Diff(sensor["AP"], optimal.AP_opt, p.sigma_AP)
        diff_pH == Diff(sensor["pH"], optimal.pH_opt, p.sigma_pH)
    IN RatAdd(RatAdd(RatAdd(RatAdd(RatAdd(RatMul(p.w_T, diff_T),
                                          RatMul(p.w_H, diff_H)),
                                   RatMul(p.w_P, diff_P)),
                            RatMul(p.w_Tavg, diff_Tavg)),
                     RatMul(p.w_AP, diff_AP)),
              RatMul(p.w_pH, diff_pH))

\* exp(-x) of a double: the value exp(-x), written [exp_minus |-> x], or 0.0
\* when it underflows.  (The rounding of exp is left out: the exponents
\* scored here are far enough apart to give different doubles, also among
\* the subnormal ones from about 708.4 on, where the doubles are sparse.)
ExpMinus(x) ==
    IF RatLess(x, Num(UnderflowHundredths + 1, 100)) THEN [exp_minus |-> x]
    ELSE [exp_minus |-> None]

\* a < b of two such values.
FitnessLess(a, b) ==
    IF a.exp_minus = None THEN b.exp_minus # None
    ELSE b.exp_minus # None /\ RatLess(b.exp_minus, a.exp_minus)

\* Line 263.
plant_fitness(sensor, optimal, p) == ExpMinus(Exponent(sensor, optimal, p))

\* A later crop of the same score beats the best so far.
BeatsOrTies(candidate, best) == ~FitnessLess(candidate, best)

\* Line 308: max keeps the first of the greatest keys; a later one replaces
\* it only when greater.
Beats(candidate, best) == FitnessLess(best, candidate)

RECURSIVE MaxFrom(_, _, _)
MaxFrom(crop_fitness, i, best) ==
    IF i > Len(crop_fitness) THEN best
    ELSE MaxFrom(crop_fitness, i + 1,
                 IF Beats(crop_fitness[i].fitness, crop_fitness[best].fitness)
                 THEN i ELSE best)

\* Lines 305-309: recommend_crop over a profile set that is not empty.
recommend_crop(sensor, profiles, p) ==
    LET crop_fitness == [i \in DOMAIN profiles |->
                           [crop |-> profiles[i].crop,
                            fitness |-> plant_fitness(sensor, profiles[i].optimal, p)]]
        best == MaxFrom(crop_fitness, 2, 1)
    IN [best_crop |-> crop_fitness[best].crop,
        best_fitness |-> crop_fitness[best].fitness,
        crop_fitness |-> crop_fitness]

\* ------------------------------------------------------------------ the workflows

\* A list of plant names (list(selected), line 459).
Plants(S) == [plants |-> S]

\* "and selected_plants" (line 501), "not selected_plants" (main).
NonEmpty(v) == v # None /\ v.plants # {}

\* Lines 485-492.
ValidRanges ==
    [T |-> <<-50, 60>>, H |-> <<0, 100>>, P |-> <<900, 1100>>,
     T_avg |-> <<-50, 60>>, AP |-> <<0, 1000>>, pH |-> <<0, 14>>]

\* Lines 289-302: what an answer to the prompt of a field stores: the number
\* it reads as when it is within the field's range, and None (the prompt is
\* shown again) after a cancelled dialog, a text that is no number and a
\* number out of range.
Answered(answer, key) ==
    IF answer = None THEN None
    ELSE IF ~IsFloatText(answer.str) THEN None
    ELSE LET val == FloatOf(answer.str)
         IN IF /\ ~RatLess(val, IntNum(ValidRanges[key][1]))
               /\ ~RatLess(IntNum(ValidRanges[key][2]), val)
            THEN val ELSE None

\* The prompt of a field is shown once.
AsksAgainNever(stored) == FALSE

\* Line 288: while True, left by the break of line 300 alone.
AsksAgain(stored) == stored = None

\* Line 502: the rows of the selected plants.
FilterSelected(tbl, selected) ==
    [tbl EXCEPT !.rows = SelectSeq(tbl.rows,
                                   LAMBDA r : ColumnValue(r, GroupCol(tbl.columns)) \in selected.plants)]

\* The filter is not applied.
SelectiveNever(solution, selected) == FALSE

\* Line 500: root.solution_mode == "selective" and root.selected_plants
Selective(solution, selected) == solution = "selective" /\ NonEmpty(selected)

RECURSIVE NormalizedYear(_, _, _, _)
NormalizedYear(y, m, cy, cm) ==
    IF InFuture(y, m, cy, cm) THEN NormalizedYear(y - 1, m, cy, cm) ELSE y

\* What get_climate_data returns when the primary provider answers every
\* attempt alike, and the secondary likewise: the record of the first
\* attempt, or the error record.
ClimateOutcome(response, alt, m, y, cy, cm) ==
    LET first == NormalizedYear(y, m, cy, cm)
        avg == AvgT2M(response.parameter)
        total == TotalPrectot(response.parameter, alt)
    IN IF IsStructured(response) /\ Usable(avg, total)
       THEN ClimateRecord(StrfYmd(first, m, 1), StrfYmd(first, m, MonthLastDay(first, m)),
                          avg, total)
       ELSE ClimateError(m, DefaultMaxYearsBack, y)

\* What get_soil_data returns when the provider answers the request of the
\* first property with a mean or not at all, and the requests of the others
\* likewise.
SoilOutcome(first, others) ==
    LET Response(k, answered) ==
            (CHOOSE a \in SoilAnswers(k) :
                IF answered THEN a.mean # None ELSE a.response = None).response
    IN [prop \in {SoilProperties[k] : k \in DOMAIN SoilProperties} |->
          LET k == CHOOSE n \in DOMAIN SoilProperties : SoilProperties[n] = prop
          IN SoilValue(Response(k, IF k = 1 THEN first ELSE others), prop, DefaultDepth)]

\* ------------------------------------------------------------------ state

VARIABLES
    entry,              \* the function called: "get_climate_data" or "get_location_info"
    pc,                 \* where the call stands
    current_year, current_month,   \* datetime.now()
    month, year, max_years_back,   \* arguments of get_climate_data
    adjusted_year, attempts,       \* its loop variables
    climate_response, avg_t2m, total_prectot,   \* locals of the latest attempt
    alt_response,       \* the secondary's answer in the latest attempt (Unset: not asked)
    adjustments,        \* number of iterations of the normalisation loop so far
    first_year,         \* adjusted_year when the attempt loop was entered
    primary_requests,   \* the GETs sent to the primary provider, in order
    secondary_requests, \* the GETs sent to the secondary provider, in order
    attempt_log,        \* per attempt made: its year, whether the primary's answer was
                        \* structured, and the temperature and precipitation it got
    climate_result,     \* what get_climate_data returned (Unset: not yet)
    report,             \* get_location_info's report
    weather_response, terrain_response,   \* its locals
    soil_data,          \* get_soil_data's mapping
    soil_requests,      \* the properties requested from the soil provider, in order
    soil_answers,       \* per requested property, the mean its answer carried
    mode,               \* main's answer to "Select mode" (Unset: not asked)
    solution_mode, selected_plants,   \* the mode and the selection of the session
    csv_file,           \* the rows of location_data_report.csv (Unset: not written)
    report_from_csv,    \* what read_report_from_csv returned
    sensor_data,        \* the sensor vector
    prompts,            \* prompt_for_missing_data: the field it is at, and the answers
                        \* it has turned down so far
    files,              \* the reference files of the dataset folder
    df,                 \* the combined table (None: nothing loaded)
    optimal_conditions, \* the profile set, in iteration order
    params,             \* the sigmas and weights of the scoring
    recommendation,     \* what recommend_crop returned
    sensor_again, recommendation_again,   \* a further call of recommend_crop
    raised              \* the exception that ended the run ("": none)

callVars == <<entry, current_year, current_month, month, year, max_years_back>>

loopVars == <<adjusted_year, attempts, adjustments, first_year>>

attemptVars == <<climate_response, avg_t2m, total_prectot, alt_response,
                 primary_requests, secondary_requests, attempt_log>>

reportVars == <<report, weather_response, terrain_response,
                soil_data, soil_requests, soil_answers>>

climateVars == <<callVars, loopVars, attemptVars, climate_result>>

sessionVars == <<mode, solution_mode, selected_plants>>

fileVars == <<csv_file, report_from_csv>>

dataVars == <<files, df, optimal_conditions, params>>

scoreVars == <<recommendation, sensor_again, recommendation_again>>

mainVars == <<mode, solution_mode, selected_plants, csv_file, report_from_csv, sensor_data,
              prompts, files, df, optimal_conditions, params, recommendation,
              sensor_again, recommendation_again, raised>>

vars == <<pc, callVars, loopVars, attemptVars, climate_result, reportVars, mainVars>>

Budgets == (0 - MaxNegBudget) .. MaxBudget

\* The locals of get_climate_data and get_location_info before anything has
\* run.
InitLocals ==
    /\ adjusted_year = year
    /\ attempts = 0
    /\ climate_response = Unset
    /\ avg_t2m = Unset
    /\ total_prectot = Unset
    /\ alt_response = Unset
    /\ adjustments = 0
    /\ first_year = 0
    /\ primary_requests = <<>>
    /\ secondary_requests = <<>>
    /\ attempt_log = <<>>
    /\ climate_result = Unset
    /\ report = EmptyDict
    /\ weather_response = Unset
    /\ terrain_response = Unset
    /\ soil_data = EmptyDict
    /\ soil_requests = <<>>
    /\ soil_answers = EmptyDict

\* The state at the entry of a call, the date and the arguments apart.
InitFrame ==
    /\ pc = "normalize"
    /\ InitLocals

\* Nothing of the workflow around the call has happened.
InitIdle ==
    /\ mode = Unset
    /\ solution_mode = Unset
    /\ selected_plants = Unset
    /\ csv_file = Unset
    /\ report_from_csv = Unset
    /\ sensor_data = Unset
    /\ prompts = [at |-> 1, rejected |-> 0]
    /\ files = Unset
    /\ df = Unset
    /\ optimal_conditions = Unset
    /\ params = Unset
    /\ recommendation = Unset
    /\ sensor_again = Unset
    /\ recommendation_again = Unset
    /\ raised = ""

\* A direct call get_climate_data(lat, lon, month, year, max_years_back).
Init ==
    /\ entry = "get_climate_data"
    /\ current_year \in NowYears
    /\ current_month \in NowMonths
    /\ month \in Months
    /\ year \in (current_year - 1) .. (current_year + MaxYearsAhead)
    /\ max_years_back \in Budgets
    /\ InitFrame
    /\ InitIdle

\* A direct call for a year close to the first year of datetime, or for the
\* year after the current one.
InitEarly ==
    /\ entry = "get_climate_data"
    /\ current_year \in NowYears
    /\ current_month \in NowMonths
    /\ month \in Months
    /\ year \in EarlyYears \cup {current_year + 1}
    /\ max_years_back \in Budgets
    /\ InitFrame
    /\ InitIdle

\* A call get_location_info(lat, lon, month, year): line 138 calls
\* get_climate_data with the default budget.
InitReport ==
    /\ entry = "get_location_info"
    /\ current_year \in NowYears
    /\ current_month \in NowMonths
    /\ month \in ReportMonths
    /\ year \in {current_year + k : k \in ReportYearsAhead}
    /\ max_years_back = DefaultMaxYearsBack
    /\ InitFrame
    /\ InitIdle

\* No call of get_climate_data or get_location_info is under way.
InitNoCall ==
    /\ current_year \in NowYears
    /\ current_month \in NowMonths
    /\ month \in ReportMonths
    /\ year \in {current_year + k : k \in ReportYearsAhead}
    /\ max_years_back = DefaultMaxYearsBack
    /\ InitLocals

\* The tables a file can hold, and the folders.
Tables ==
    UNION {[1..n -> [name : CropNames, reading : CropReadings]] : n \in TableLengths}

RowOf(r) ==
    [name |-> r.name, Temperature |-> r.reading.Temperature,
     Humidity |-> r.reading.Humidity, pH |-> r.reading.pH, Rainfall |-> r.reading.Rainfall]

Folders ==
    {[columns |-> c, tables |-> [i \in DOMAIN t |-> [j \in DOMAIN t[i] |-> RowOf(t[i][j])]]] :
        c \in Schemas, t \in UNION {[1..n -> Tables] : n \in 0..MaxFiles}}

\* A sensor vector with the temperature t and the other fields fixed.
SensorAt(t) ==
    [k \in {SensorKeys[i] : i \in DOMAIN SensorKeys} |->
        IntNum(CASE k = "T" -> t [] k = "H" -> 50 [] k = "P" -> P_opt
                 [] k = "T_avg" -> 20 [] k = "AP" -> 100 [] k = "pH" -> 6)]

\* The vector with the field k moved by d.
Shifted(sensor, k, d) == [sensor EXCEPT ![k] = RatAdd(sensor[k], IntNum(d))]

\* load_local_crop_datasets, compute_optimal_conditions and recommend_crop,
\* one after the other, over a folder.
InitData ==
    /\ entry = "load_local_crop_datasets"
    /\ pc = "load"
    /\ InitNoCall
    /\ mode = Unset
    /\ solution_mode = Unset
    /\ selected_plants = Unset
    /\ csv_file = Unset
    /\ report_from_csv = Unset
    /\ sensor_data = SensorAt(25)
    /\ prompts = [at |-> 1, rejected |-> 0]
    /\ files \in Folders
    /\ df = Unset
    /\ optimal_conditions = Unset
    /\ params = AppParams
    /\ recommendation = Unset
    /\ sensor_again = Unset
    /\ recommendation_again = Unset
    /\ raised = ""

\* The temperature alone is weighted: sigma_T = 2, w_T = 1.
TemperatureOnly ==
    [AppParams EXCEPT !.w_T = IntNum(1), !.w_H = IntNum(0), !.w_P = IntNum(0),
                      !.w_Tavg = IntNum(0), !.w_AP = IntNum(0), !.w_pH = IntNum(0)]

\* The temperature and the pressure are weighted alike: w_T = w_P = 1.
TemperatureAndPressure == [TemperatureOnly EXCEPT !.w_P = IntNum(1)]

Profiles ==
    {[T_opt |-> IntNum(t), H_opt |-> IntNum(h), pH_opt |-> IntNum(6), AP_opt |-> IntNum(100)] :
        t \in ProfileTemperatures, h \in ProfileHumidities}

ProfileSets ==
    {<<[crop |-> c, optimal |-> o]>> : c \in CropNames, o \in Profiles}
    \cup UNION {{<<[crop |-> c, optimal |-> o], [crop |-> d, optimal |-> q]>> :
                    d \in CropNames \ {c}, o \in Profiles, q \in Profiles} : c \in CropNames}

\* Two calls of recommend_crop with the same profile set.
InitScore ==
    /\ entry = "recommend_crop"
    /\ pc = "recommend"
    /\ InitNoCall
    /\ mode = Unset
    /\ solution_mode = Unset
    /\ selected_plants = Unset
    /\ csv_file = Unset
    /\ report_from_csv = Unset
    /\ sensor_data \in {SensorAt(t) : t \in SensorTemperatures}
    /\ sensor_again \in {sensor_data}
           \cup {Shifted(sensor_data, SensorKeys[i], d) : i \in DOMAIN SensorKeys, d \in SensorShifts}
           \cup {Shifted(sensor_data, "P", d) : d \in PressureShifts}
    /\ prompts = [at |-> 1, rejected |-> 0]
    /\ files = Unset
    /\ df = Unset
    /\ optimal_conditions \in ProfileSets
    /\ params \in {AppParams, TemperatureOnly, TemperatureAndPressure}
    /\ recommendation = Unset
    /\ recommendation_again = Unset
    /\ raised = ""

\* The folders of the workflows: no file, a file of two crops, two files,
\* and a file without an identifier column.
WorkflowFolders ==
    LET maize == [name |-> "maize", Temperature |-> 20, Humidity |-> 50, pH |-> 6, Rainfall |-> 100]
        rice == [name |-> "rice", Temperature |-> 30, Humidity |-> 70, pH |-> 7, Rainfall |-> 200]
    IN {[columns |-> {"label"}, tables |-> <<>>],
        [columns |-> {"label"}, tables |-> << <<maize, rice>> >>],
        [columns |-> {"label"}, tables |-> << <<rice>>, <<maize, rice>> >>],
        [columns |-> {}, tables |-> << <<maize>> >>]}

\* main() at its mode question, and on_submit at its entry with the mode and
\* the selection the windows have left in root (lines 348-349, 389, 459);
\* the inputs of lines 466-469 are numbers.
InitMain ==
    /\ entry \in {"main", "on_submit"}
    /\ InitNoCall
    /\ IF entry = "main"
       THEN /\ pc = "mode"
            /\ solution_mode = Unset
            /\ selected_plants = Unset
       ELSE /\ pc = "location"
            /\ solution_mode \in {"optimal", "selective"}
            /\ selected_plants \in IF solution_mode = "selective"
                                   THEN {Plants(S) : S \in SUBSET SelectableNames}
                                   ELSE {Plants({})}
    /\ mode = Unset
    /\ csv_file = Unset
    /\ report_from_csv = Unset
    /\ sensor_data = Unset
    /\ prompts = [at |-> 1, rejected |-> 0]
    /\ files \in WorkflowFolders
    /\ df = Unset
    /\ optimal_conditions = Unset
    /\ params = AppParams
    /\ recommendation = Unset
    /\ sensor_again = Unset
    /\ recommendation_again = Unset
    /\ raised = ""

\* ------------------------------------------------------------------ get_climate_data

\* One iteration of the loop of lines 58-60.
AdjustFuture ==
    /\ pc = "normalize"
    /\ InFuture(adjusted_year, month, current_year, current_month)
    /\ adjusted_year' = adjusted_year - 1
    /\ adjustments' = adjustments + 1
    /\ UNCHANGED <<pc, callVars, attempts, first_year, attemptVars, climate_result, reportVars>>
    /\ UNCHANGED mainVars

\* The exit of that loop: attempts = 0 (line 61).
StartAttempts ==
    /\ pc = "normalize"
    /\ ~InFuture(adjusted_year, month, current_year, current_month)
    /\ pc' = "attempt"
    /\ attempts' = 0
    /\ first_year' = adjusted_year
    /\ UNCHANGED <<callVars, adjusted_year, adjustments, attemptVars, climate_result, reportVars>>
    /\ UNCHANGED mainVars

\* One iteration of the loop of lines 62-98: the primary fetch, the secondary
\* fetch when valid_prectot is empty, and the return or the step to the year
\* before.
Attempt ==
    /\ pc = "attempt"
    /\ LoopCondition(attempts, max_years_back)
    /\ adjusted_year >= MINYEAR
    /\ \E response \in PrimaryResponses, padded \in YearPaddings(adjusted_year) :
         \E alt \in (IF AsksSecondary(response) THEN SecondaryResponses ELSE {Unset}) :
         LET start_date == StrfTime(adjusted_year, month, 1, padded)
             end_date == StrfTime(adjusted_year, month, MonthLastDay(adjusted_year, month), padded)
             structured == IsStructured(response)
             avg == AvgT2M(response.parameter)
             ask == AsksSecondary(response)
             total == TotalPrectot(response.parameter, alt)
             done == structured /\ Usable(avg, total)
         IN /\ climate_response' = response
            /\ primary_requests' = Append(primary_requests, [start |-> start_date, end |-> end_date])
            /\ alt_response' = alt
            /\ secondary_requests' =
                 IF ask THEN Append(secondary_requests,
                                    [attempt |-> attempts + 1,
                                     params |-> AlternativeParams(start_date, end_date)])
                 ELSE secondary_requests
            /\ avg_t2m' = IF structured THEN avg ELSE avg_t2m
            /\ total_prectot' = IF structured THEN total ELSE total_prectot
            /\ attempt_log' = Append(attempt_log,
                                     [year |-> adjusted_year, structured |-> structured,
                                      avg |-> IF structured THEN avg ELSE Unset,
                                      total |-> IF structured THEN total ELSE Unset])
            /\ IF done
               THEN /\ climate_result' = ClimateRecord(start_date, end_date, avg, total)
                    /\ pc' = "climate_returned"
                    /\ UNCHANGED <<adjusted_year, attempts>>
               ELSE /\ adjusted_year' = adjusted_year - 1
                    /\ attempts' = attempts + 1
                    /\ UNCHANGED <<climate_result, pc>>
    /\ UNCHANGED <<callVars, adjustments, first_year, reportVars>>
    /\ UNCHANGED mainVars

\* Line 65 in an iteration whose year is below datetime.MINYEAR:
\* datetime(adjusted_year, month, first_day) raises ValueError, which
\* get_climate_data does not catch.
AttemptRaises ==
    /\ pc = "attempt"
    /\ LoopCondition(attempts, max_years_back)
    /\ adjusted_year < MINYEAR
    /\ raised' = "ValueError"
    /\ pc' = "raised"
    /\ UNCHANGED <<climateVars, reportVars, sessionVars, fileVars, sensor_data, prompts,
                   dataVars, scoreVars>>

\* The exit of the attempt loop: line 99.
Exhausted ==
    /\ pc = "attempt"
    /\ ~LoopCondition(attempts, max_years_back)
    /\ climate_result' = ClimateError(month, max_years_back, year)
    /\ pc' = "climate_returned"
    /\ UNCHANGED <<callVars, loopVars, attemptVars, reportVars>>
    /\ UNCHANGED mainVars

\* ------------------------------------------------------------------ get_location_info

\* Line 138: the resolver's result becomes the "Climate Data" section; the
\* resolver's frame (the locals of its last attempt and the record of its
\* requests) is gone.
StoreClimate ==
    /\ pc = "climate_returned"
    /\ entry = "get_location_info"
    /\ report' = Put(report, "Climate Data", climate_result)
    /\ climate_response' = Unset
    /\ avg_t2m' = Unset
    /\ total_prectot' = Unset
    /\ alt_response' = Unset
    /\ primary_requests' = <<>>
    /\ secondary_requests' = <<>>
    /\ attempt_log' = <<>>
    /\ pc' = "weather"
    /\ UNCHANGED <<callVars, loopVars, climate_result, weather_response, terrain_response,
                   soil_data, soil_requests, soil_answers>>
    /\ UNCHANGED mainVars

\* Lines 139-149.
FetchWeather ==
    /\ pc = "weather"
    /\ \E response \in WeatherResponses :
         /\ weather_response' = response
         /\ report' = Put(report, "Weather Data", WeatherSection(response))
    /\ pc' = "soil"
    /\ UNCHANGED <<callVars, loopVars, attemptVars, climate_result, terrain_response,
                   soil_data, soil_requests, soil_answers>>
    /\ UNCHANGED mainVars

\* One iteration of get_soil_data's loop, lines 115-127.
SoilStep ==
    /\ pc = "soil"
    /\ Len(soil_requests) < Len(SoilProperties)
    /\ LET i == Len(soil_requests) + 1
           prop == SoilProperties[i]
       IN \E answer \in SoilAnswers(i) :
            /\ soil_requests' = Append(soil_requests, prop)
            /\ soil_answers' = Put(soil_answers, prop, answer.mean)
            /\ soil_data' = Put(soil_data, prop, SoilValue(answer.response, prop, DefaultDepth))
    /\ UNCHANGED <<pc, callVars, loopVars, attemptVars, climate_result, report,
                   weather_response, terrain_response>>
    /\ UNCHANGED mainVars

\* get_soil_data's return (line 128) and line 151.
StoreSoil ==
    /\ pc = "soil"
    /\ Len(soil_requests) = Len(SoilProperties)
    /\ report' = Put(report, "Soil Data (Depth 0-5cm)", SoilSection(Dict(soil_data)))
    /\ pc' = "terrain"
    /\ UNCHANGED <<callVars, loopVars, attemptVars, climate_result, weather_response,
                   terrain_response, soil_data, soil_requests, soil_answers>>
    /\ UNCHANGED mainVars

\* Lines 152-158.
FetchTerrain ==
    /\ pc = "terrain"
    /\ \E response \in TerrainResponses :
         /\ terrain_response' = response
         /\ report' = Put(report, "Elevation Data", ElevationSection(response))
    /\ pc' = "done"
    /\ UNCHANGED <<callVars, loopVars, attemptVars, climate_result, weather_response,
                   soil_data, soil_requests, soil_answers>>
    /\ UNCHANGED mainVars

\* ------------------------------------------------------------------ the report file and the sensor vector

\* Line 475: export_report_to_csv(report, csv_path).  (The file can be
\* written and read: a failure of either is reported and leaves an empty
\* report.)
ExportReport ==
    /\ pc = "done"
    /\ csv_file' = ExportRows(report)
    /\ pc' = "exported"
    /\ UNCHANGED <<climateVars, reportVars, sessionVars, report_from_csv, sensor_data,
                   prompts, dataVars, scoreVars, raised>>

\* Line 476: report_from_csv = read_report_from_csv(csv_path).
ReadReport ==
    /\ pc = "exported"
    /\ report_from_csv' = ReadRows(csv_file)
    /\ pc' = "read"
    /\ UNCHANGED <<climateVars, reportVars, sessionVars, csv_file, sensor_data,
                   prompts, dataVars, scoreVars, raised>>

\* Line 493: sensor_data = get_sensor_data_from_report(report_from_csv).
GetSensorData ==
    /\ pc = "read"
    /\ IF RaisesAttributeError(report_from_csv)
       THEN /\ raised' = "AttributeError"
            /\ pc' = "raised"
            /\ UNCHANGED sensor_data
       ELSE /\ sensor_data' = SensorVector(report_from_csv)
            /\ pc' = "sensor"
            /\ UNCHANGED raised
    /\ UNCHANGED <<climateVars, reportVars, sessionVars, fileVars,
                   prompts, dataVars, scoreVars>>

\* ------------------------------------------------------------------ the reference data and the scoring

\* Line 495: df = load_local_crop_datasets(folder_path); lines 496-498 end
\* the workflow when there is none.
LoadDatasets ==
    /\ pc = "load"
    /\ df' = LoadLocalCropDatasets(files)
    /\ pc' = IF df' = None THEN "stopped"
             ELSE IF entry \in {"main", "on_submit"} THEN "counts" ELSE "optimal"
    /\ UNCHANGED <<climateVars, reportVars, sessionVars, fileVars, sensor_data, prompts,
                   files, optimal_conditions, params, scoreVars, raised>>

\* Line 506: optimal_conditions = compute_optimal_conditions(df), which
\* raises KeyError (line 231) when df has none of the candidate columns.
ComputeOptimal ==
    /\ pc = "optimal"
    /\ IF GroupCol(df.columns) = ""
       THEN /\ raised' = "KeyError"
            /\ pc' = "raised"
            /\ UNCHANGED optimal_conditions
       ELSE /\ optimal_conditions' = ComputeOptimalConditions(df)
            /\ pc' = "recommend"
            /\ UNCHANGED raised
    /\ UNCHANGED <<climateVars, reportVars, sessionVars, fileVars, sensor_data, prompts,
                   files, df, params, scoreVars>>

\* Line 524: recommend_crop(sensor_data, optimal_conditions, sigmas, weights);
\* plant_fitness raises TypeError (line 251) on a field that is None.
Recommend ==
    /\ pc = "recommend"
    /\ IF \E k \in DOMAIN sensor_data : sensor_data[k] = None
       THEN /\ raised' = "TypeError"
            /\ pc' = "raised"
            /\ UNCHANGED recommendation
       ELSE /\ recommendation' = recommend_crop(sensor_data, optimal_conditions, params)
            /\ pc' = "recommended"
            /\ UNCHANGED raised
    /\ UNCHANGED <<climateVars, reportVars, sessionVars, fileVars, sensor_data, prompts,
                   dataVars, sensor_again, recommendation_again>>

\* A further call of recommend_crop, with the same profile set.
RecommendAgain ==
    /\ pc = "recommended"
    /\ entry = "recommend_crop"
    /\ recommendation_again' = recommend_crop(sensor_again, optimal_conditions, params)
    /\ pc' = "recommended_again"
    /\ UNCHANGED <<climateVars, reportVars, sessionVars, fileVars, sensor_data, prompts,
                   dataVars, recommendation, sensor_again, raised>>

\* ------------------------------------------------------------------ main and on_submit

\* Lines 360-372 of main: the mode question and, in mode 2, select_plants
\* (lines 319-354), which returns no plant when the folder has no data,
\* raises KeyError at df[group_col] when the files have none of the candidate
\* columns, and else returns plants of the dataset.
AllPlants(tbl) ==
    {ColumnValue(tbl.rows[i], GroupCol(tbl.columns)) : i \in DOMAIN tbl.rows}

ChooseMode ==
    /\ pc = "mode"
    /\ \E answer \in {"1", "2"} :
         LET found == LoadLocalCropDatasets(files)
         IN /\ mode' = answer
            /\ IF answer = "1"
               THEN /\ solution_mode' = "optimal"
                    /\ selected_plants' = None
                    /\ pc' = "location"
                    /\ UNCHANGED raised
               ELSE IF found = None
               THEN /\ solution_mode' = "optimal"
                    /\ selected_plants' = None
                    /\ pc' = "location"
                    /\ UNCHANGED raised
               ELSE IF GroupCol(found.columns) = ""
               THEN /\ solution_mode' = "selective"
                    /\ selected_plants' = None
                    /\ raised' = "KeyError"
                    /\ pc' = "raised"
               ELSE \E selection \in SUBSET AllPlants(found) :
                      /\ IF NonEmpty(Plants(selection))
                         THEN /\ solution_mode' = "selective"
                              /\ selected_plants' = Plants(selection)
                         ELSE /\ solution_mode' = "optimal"
                              /\ selected_plants' = None
                      /\ pc' = "location"
                      /\ UNCHANGED raised
    /\ UNCHANGED <<climateVars, reportVars, fileVars, sensor_data, prompts,
                   dataVars, scoreVars>>

\* Line 473: report = get_location_info(lat, lon, month, year), as a whole.
GetLocationInfo ==
    /\ pc = "location"
    /\ \E response \in {r \in PrimaryResponses :
                          r.kind = "structured" => \A k \in DOMAIN r.parameter :
                                                     \A d \in DOMAIN r.parameter[k] :
                                                        r.parameter[k][d] # SENTINEL} :
         \E weather \in WeatherResponses :
           \E first \in BOOLEAN :
             report' = ("Climate Data" :>
                            ClimateOutcome(response,
                                           IF AsksSecondary(response)
                                           THEN [kind |-> "absent", precipitation_sum |-> <<>>]
                                           ELSE Unset,
                                           month, year, current_year, current_month))
                       @@ ("Weather Data" :> WeatherSection(weather))
                       @@ ("Soil Data (Depth 0-5cm)" :> SoilSection(Dict(SoilOutcome(first, TRUE))))
                       @@ ("Elevation Data" :> ElevationSection(None))
    /\ pc' = "done"
    /\ UNCHANGED <<climateVars, weather_response, terrain_response, soil_data, soil_requests,
                   soil_answers, mainVars>>

\* prompt_for_missing_data, lines 286-287: a field that has a value is passed
\* over.
PromptSkip ==
    /\ pc = "sensor"
    /\ entry \in {"main", "on_submit"}
    /\ prompts.at <= Len(SensorKeys)
    /\ sensor_data[SensorKeys[prompts.at]] # None
    /\ prompts' = [prompts EXCEPT !.at = @ + 1]
    /\ UNCHANGED <<pc, climateVars, reportVars, sessionVars, fileVars, sensor_data,
                   dataVars, scoreVars, raised>>

\* Lines 288-302: one answer to the prompt of a field without a value.  (Only
\* the dialog of on_submit can be cancelled.)
PromptAnswer ==
    /\ pc = "sensor"
    /\ entry \in {"main", "on_submit"}
    /\ prompts.at <= Len(SensorKeys)
    /\ sensor_data[SensorKeys[prompts.at]] = None
    /\ \E answer \in {Str(t) : t \in PromptTexts}
                        \cup (IF entry = "on_submit" THEN {None} ELSE {}) :
         LET key == SensorKeys[prompts.at]
             stored == Answered(answer, key)
         IN IF AsksAgain(stored)
            THEN /\ prompts.rejected < MaxRejected
                 /\ prompts' = [prompts EXCEPT !.rejected = @ + 1]
                 /\ UNCHANGED sensor_data
            ELSE /\ sensor_data' = [sensor_data EXCEPT ![key] = stored]
                 /\ prompts' = [prompts EXCEPT !.at = @ + 1]
    /\ UNCHANGED <<pc, climateVars, reportVars, sessionVars, fileVars,
                   dataVars, scoreVars, raised>>

\* Line 303: prompt_for_missing_data returns.
PromptReturn ==
    /\ pc = "sensor"
    /\ entry \in {"main", "on_submit"}
    /\ prompts.at > Len(SensorKeys)
    /\ pc' = "load"
    /\ UNCHANGED <<climateVars, reportVars, sessionVars, fileVars, sensor_data, prompts,
                   dataVars, scoreVars, raised>>

\* Line 499: export_plant_counts(df, folder_path), which raises KeyError
\* (line 218) when df has none of the candidate columns.
ExportPlantCounts ==
    /\ pc = "counts"
    /\ IF GroupCol(df.columns) = ""
       THEN /\ raised' = "KeyError"
            /\ pc' = "raised"
       ELSE /\ pc' = "filter"
            /\ UNCHANGED raised
    /\ UNCHANGED <<climateVars, reportVars, sessionVars, fileVars, sensor_data, prompts,
                   dataVars, scoreVars>>

\* Lines 500-505: in selective mode with a selection, df becomes its rows
\* of the selected plants, and the workflow ends when there is none.
FilterDataset ==
    /\ pc = "filter"
    /\ IF Selective(solution_mode, selected_plants)
       THEN /\ df' = FilterSelected(df, selected_plants)
            /\ pc' = IF df'.rows = <<>> THEN "stopped" ELSE "optimal"
       ELSE /\ pc' = "optimal"
            /\ UNCHANGED df
    /\ UNCHANGED <<climateVars, reportVars, sessionVars, fileVars, sensor_data, prompts,
                   files, optimal_conditions, params, scoreVars, raised>>

\* ------------------------------------------------------------------ specifications

Next ==
    \/ AdjustFuture
    \/ StartAttempts
    \/ Attempt
    \/ Exhausted

Spec == Init /\ [][Next]_vars

NextEarly ==
    \/ AdjustFuture
    \/ StartAttempts
    \/ Attempt
    \/ AttemptRaises
    \/ Exhausted

SpecEarly == InitEarly /\ [][NextEarly]_vars

NextReport ==
    \/ AdjustFuture
    \/ StartAttempts
    \/ Attempt
    \/ Exhausted
    \/ StoreClimate
    \/ FetchWeather
    \/ SoilStep
    \/ StoreSoil
    \/ FetchTerrain

SpecReport == InitReport /\ [][NextReport]_vars

\* get_location_info, and the report through the file to the sensor vector.
NextCsv ==
    \/ AdjustFuture
    \/ StartAttempts
    \/ Attempt
    \/ Exhausted
    \/ StoreClimate
    \/ FetchWeather
    \/ SoilStep
    \/ StoreSoil
    \/ FetchTerrain
    \/ ExportReport
    \/ ReadReport
    \/ GetSensorData

SpecCsv == InitReport /\ [][NextCsv]_vars

\* The reference files to the recommendation.
NextData ==
    \/ LoadDatasets
    \/ ComputeOptimal
    \/ Recommend

SpecData == InitData /\ [][NextData]_vars

\* recommend_crop, twice.
NextScore ==
    \/ Recommend
    \/ RecommendAgain

SpecScore == InitScore /\ [][NextScore]_vars

\* main and on_submit.
NextMain ==
    \/ ChooseMode
    \/ GetLocationInfo
    \/ ExportReport
    \/ ReadReport
    \/ GetSensorData
    \/ PromptSkip
    \/ PromptAnswer
    \/ PromptReturn
    \/ LoadDatasets
    \/ ExportPlantCounts
    \/ FilterDataset
    \/ ComputeOptimal
    \/ Recommend

SpecMain == InitMain /\ [][NextMain]_vars

\* ------------------------------------------------------------------ properties

Max(a, b) == IF a >= b THEN a ELSE b

\* The number a sequence of digit characters writes.
RECURSIVE ParseNat(_)
ParseNat(s) ==
    IF s = <<>> THEN 0
    ELSE 10 * ParseNat(SubSeq(s, 1, Len(s) - 1))
         + (CHOOSE d \in 0..9 : DigitChars[d + 1] = s[Len(s)])

\* The year, month and day of a primary date, YYYYMMDD.
YmdOf(s) == <<ParseNat(SubSeq(s, 1, 4)), ParseNat(SubSeq(s, 5, 6)), ParseNat(SubSeq(s, 7, 8))>>

\* The year, month and day of a secondary date, YYYY-MM-DD.
AltYmdOf(s) ==
    IF Len(s) = 10 /\ s[5] = "-" /\ s[8] = "-"
    THEN <<ParseNat(SubSeq(s, 1, 4)), ParseNat(SubSeq(s, 6, 7)), ParseNat(SubSeq(s, 9, 10))>>
    ELSE <<0, 0, 0>>

\* The number of days of a month, from the calendar's table.
DaysOf(y, m) ==
    LET table == <<31, 28, 31, 30, 31, 30, 31, 31, 30, 31, 30, 31>>
        leap == (y % 400 = 0) \/ (y % 4 = 0 /\ y % 100 # 0)
    IN IF m = 2 /\ leap THEN 29 ELSE table[m]

\* The climate call has returned (in get_location_info: and perhaps more).
ClimateReturned == pc \notin {"normalize", "attempt"}

IsErrorRecord(r) == IsDict(r) /\ DOMAIN r.dict = {"Error"}

IsClimateRecord(r) == IsDict(r) /\ "Error" \notin DOMAIN r.dict

\* An attempt of the log got a temperature or a precipitation.
HasData(e) == (e.avg \notin {NoData, Unset}) \/ (e.total \notin {NoData, Unset})

\* The latest attempt's primary answer was structured and its precipitation
\* series (if any) holds no value other than the sentinel.
LatestAllSentinel ==
    /\ attempt_log # <<>>
    /\ climate_response.kind = "structured"
    /\ \/ "PRECTOT" \notin DOMAIN climate_response.parameter
       \/ \A i \in DOMAIN climate_response.parameter["PRECTOT"] :
            climate_response.parameter["PRECTOT"][i] = SENTINEL

\* The secondary requests made in attempt k.
SecondaryIn(k) == {i \in DOMAIN secondary_requests : secondary_requests[i].attempt = k}

\* C1 as stated: during a call of get_climate_data the number of GET requests
\* sent to the primary provider is at most max_years_back.
C1_AtMostBudgetAsStated ==
    pc = "climate_returned" => Len(primary_requests) <= max_years_back

\* C1, amended: during a call of get_climate_data the number of GET requests
\* sent to the primary provider is at most max(0, max_years_back).
C1_AtMostBudget == Len(primary_requests) <= Max(0, max_years_back)

C1_Witness ==
    /\ pc = "climate_returned"
    /\ max_years_back >= 2
    /\ Len(primary_requests) = max_years_back
    /\ \E k \in DOMAIN attempt_log : ~attempt_log[k].structured
    /\ \E k \in DOMAIN attempt_log : attempt_log[k].structured

\* C2: the k-th attempt asks for the same month of the year (normalized year
\* - (k-1)), so the years are visited in strictly decreasing order; a year with
\* a temperature or a precipitation is the last one visited, and the call has
\* then returned the record of that year, also when the record has only one
\* of the two fields.
C2_RecentFirst ==
    /\ \A k \in DOMAIN primary_requests :
         /\ YmdOf(primary_requests[k].start)[1] = first_year - (k - 1)
         /\ YmdOf(primary_requests[k].start)[2] = month
         /\ YmdOf(primary_requests[k].end)[1] = first_year - (k - 1)
         /\ YmdOf(primary_requests[k].end)[2] = month
         /\ attempt_log[k].year = first_year - (k - 1)
    /\ \A k \in DOMAIN primary_requests :
         k > 1 => YmdOf(primary_requests[k].start)[1] < YmdOf(primary_requests[k - 1].start)[1]
    /\ Len(attempt_log) = Len(primary_requests)
    /\ \A k \in DOMAIN attempt_log :
         HasData(attempt_log[k]) =>
           /\ k = Len(attempt_log)
           /\ pc = "climate_returned"
           /\ IsClimateRecord(climate_result)
           /\ climate_result.dict["Average Temperature (T2M)"] = attempt_log[k].avg
           /\ climate_result.dict["Total Precipitation (PRECTOT)"] = attempt_log[k].total
    /\ (pc = "climate_returned" /\ IsClimateRecord(climate_result)) =>
         (attempt_log # <<>> /\ HasData(attempt_log[Len(attempt_log)]))

C2_Witness ==
    /\ pc = "climate_returned"
    /\ Len(attempt_log) = 2
    /\ max_years_back > 1
    /\ IsClimateRecord(climate_result)
    /\ climate_result.dict["Average Temperature (T2M)"] = NoData
    /\ IsNum(climate_result.dict["Total Precipitation (PRECTOT)"])

\* C3: the year of the first attempt is never in the future: for a request in
\* the future it is the current year when month <= current month and the
\* year before otherwise, and for any other request it is the requested year.
C3_NormalizedYear ==
    pc # "normalize" =>
      /\ first_year = adjusted_year + attempts
      /\ ~(first_year > current_year \/ (first_year = current_year /\ month > current_month))
      /\ first_year =
           IF year > current_year \/ (year = current_year /\ month > current_month)
           THEN (IF month <= current_month THEN current_year ELSE current_year - 1)
           ELSE year
      /\ primary_requests # <<>> => YmdOf(primary_requests[1].start)[1] = first_year

C3_Witness ==
    /\ pc = "climate_returned"
    /\ primary_requests # <<>>
    /\ year = current_year
    /\ month > current_month
    /\ first_year = current_year - 1

\* C4: in an attempt where the primary's precipitation series holds only
\* sentinel values, the attempt's precipitation is the sum of the secondary's
\* daily series, asked for the first to the last day of the same year and
\* month, or "No data" when the secondary gave nothing or an empty series.
C4_SecondarySum ==
    LatestAllSentinel =>
      LET k == Len(attempt_log)
          asked == SecondaryIn(k)
      IN /\ asked # {}
         /\ \A i \in asked :
              LET p == secondary_requests[i].params
              IN /\ AltYmdOf(p.start_date) = <<attempt_log[k].year, month, 1>>
                 /\ AltYmdOf(p.end_date) = <<attempt_log[k].year, month, DaysOf(attempt_log[k].year, month)>>
                 /\ AltYmdOf(p.start_date) = YmdOf(primary_requests[k].start)
                 /\ AltYmdOf(p.end_date) = YmdOf(primary_requests[k].end)
         /\ alt_response \in SecondaryResponses
         /\ attempt_log[k].total = total_prectot
         /\ total_prectot =
              IF alt_response.kind = "daily" /\ Len(alt_response.precipitation_sum) > 0
              THEN [num |-> SeqSum(alt_response.precipitation_sum), den |-> 1]
              ELSE NoData

C4_Witness ==
    /\ LatestAllSentinel
    /\ "PRECTOT" \in DOMAIN climate_response.parameter
    /\ alt_response \in SecondaryResponses
    /\ Len(alt_response.precipitation_sum) = 2
    /\ total_prectot = [num |-> 8, den |-> 1]
    /\ month = 2
    /\ Len(attempt_log) = 2

\* C5: the secondary provider is asked in an attempt only when the primary
\* answered that attempt with a structured response whose precipitation
\* series has no value other than the sentinel: never in an attempt with a
\* precipitation value from the primary, never in one where the primary
\* returned nothing, and at most once per attempt.
C5_SecondaryOnlyWhenNeeded ==
    /\ \A k \in DOMAIN attempt_log : Cardinality(SecondaryIn(k)) <= 1
    /\ \A i \in DOMAIN secondary_requests : secondary_requests[i].attempt \in DOMAIN attempt_log
    /\ \A k \in DOMAIN attempt_log : ~attempt_log[k].structured => SecondaryIn(k) = {}
    /\ attempt_log # <<>> =>
         /\ (SecondaryIn(Len(attempt_log)) # {}) <=> LatestAllSentinel
         /\ (alt_response # Unset) <=> LatestAllSentinel

C5_Witness ==
    /\ Len(attempt_log) = 2
    /\ secondary_requests # <<>>
    /\ SecondaryIn(1) # {}
    /\ SecondaryIn(2) = {}
    /\ climate_response.kind = "structured"
    /\ "PRECTOT" \in DOMAIN climate_response.parameter
    /\ \E i \in DOMAIN climate_response.parameter["PRECTOT"] :
         climate_response.parameter["PRECTOT"][i] # SENTINEL

\* C7: a record get_climate_data returns that is no error record has a number
\* in "Average Temperature (T2M)" or in "Total Precipitation (PRECTOT)", and
\* its "Date Range" is the window of the year whose attempt produced them.
C7_RecordHasValue ==
    (pc = "climate_returned" /\ ~IsErrorRecord(climate_result)) =>
      LET k == Len(attempt_log)
          r == climate_result.dict
      IN /\ DOMAIN r = {"Date Range", "Average Temperature (T2M)", "Total Precipitation (PRECTOT)"}
         /\ IsNum(r["Average Temperature (T2M)"]) \/ IsNum(r["Total Precipitation (PRECTOT)"])
         /\ r["Average Temperature (T2M)"] = avg_t2m
         /\ r["Total Precipitation (PRECTOT)"] = total_prectot
         /\ IsNum(r["Average Temperature (T2M)"]) \/ r["Average Temperature (T2M)"] = NoData
         /\ IsNum(r["Total Precipitation (PRECTOT)"]) \/ r["Total Precipitation (PRECTOT)"] = NoData
         /\ r["Average Temperature (T2M)"] = attempt_log[k].avg
         /\ r["Total Precipitation (PRECTOT)"] = attempt_log[k].total
         /\ r["Date Range"] =
              Str(primary_requests[k].start \o <<" to ">> \o primary_requests[k].end)
         /\ YmdOf(primary_requests[k].start) = <<attempt_log[k].year, month, 1>>
         /\ YmdOf(primary_requests[k].end) = <<attempt_log[k].year, month, DaysOf(attempt_log[k].year, month)>>

C7_Witness ==
    /\ pc = "climate_returned"
    /\ ~IsErrorRecord(climate_result)
    /\ Len(attempt_log) = 2
    /\ IsNum(climate_result.dict["Average Temperature (T2M)"])
    /\ climate_result.dict["Total Precipitation (PRECTOT)"] = NoData

\* The pieces of sub occur, in a row, in the pieces of s.
Contains(s, sub) ==
    \E i \in 0..(Len(s) - Len(sub)) : SubSeq(s, i + 1, i + Len(sub)) = sub

SectionKeys ==
    {"Climate Data", "Weather Data", "Soil Data (Depth 0-5cm)", "Elevation Data"}

SoilKeys == {"phh2o", "soc", "clay", "silt", "sand", "cec", "cfvo"}

\* The weather fetch failed or its answer lacks the main block.
WeatherFailed ==
    \/ weather_response = None
    \/ "main" \notin DOMAIN weather_response.dict

\* The terrain fetch failed or its answer has no results.
TerrainFailed ==
    \/ terrain_response = None
    \/ "results" \notin DOMAIN terrain_response.dict
    \/ terrain_response.dict["results"].list = <<>>

\* C6: when all max_years_back attempts have ended without a temperature or
\* a precipitation, get_climate_data returns a mapping whose only key is
\* "Error" and whose message names the requested month and max_years_back,
\* and get_location_info stores that mapping as its "Climate Data" section.
C6_ErrorRecord ==
    (ClimateReturned /\ attempts >= max_years_back) =>
      /\ IsErrorRecord(climate_result)
      /\ IsStr(climate_result.dict["Error"])
      /\ Contains(climate_result.dict["Error"].str,
                  <<"No climate data for month ">> \o IntStr(month) \o <<" in past ">>
                  \o IntStr(max_years_back) \o <<" years from ">>)
      /\ pc # "climate_returned" =>
           /\ "Climate Data" \in DOMAIN report
           /\ report["Climate Data"] = climate_result

C6_Witness ==
    /\ pc = "done"
    /\ attempts = max_years_back
    /\ max_years_back = DefaultMaxYearsBack
    /\ IsErrorRecord(report["Climate Data"])

\* C8: whatever sources fail, the report get_location_info returns has
\* exactly the four section keys, and each section is a non-empty mapping or
\* a string.
C8_FourSections ==
    pc = "done" =>
      /\ DOMAIN report = SectionKeys
      /\ \A k \in SectionKeys :
           \/ IsDict(report[k]) /\ DOMAIN report[k].dict # {}
           \/ IsStr(report[k])

C8_Witness ==
    /\ pc = "done"
    /\ IsErrorRecord(report["Climate Data"])
    /\ IsStr(report["Weather Data"])
    /\ IsStr(report["Elevation Data"])
    /\ \A k \in SoilKeys : report["Soil Data (Depth 0-5cm)"].dict[k] = None

\* C9: failures stay in their own section: the weather section is the string
\* placeholder exactly when the weather fetch failed or lacked its main block,
\* the elevation section exactly when the terrain fetch failed or had no
\* results, and every section holds what its own source gave, whatever the
\* other sources did; when only the weather fetch fails, only the weather
\* section is a string.
C9_FailuresIsolated ==
    pc = "done" =>
      /\ IsStr(report["Weather Data"]) <=> WeatherFailed
      /\ WeatherFailed => report["Weather Data"] = Lit("No weather data retrieved.")
      /\ ~WeatherFailed =>
           LET w == report["Weather Data"].dict
               main == weather_response.dict["main"].dict
               FromMain(k) == IF k \in DOMAIN main THEN main[k] ELSE NoData
           IN /\ DOMAIN w = {"Location", "Temperature", "Humidity", "Pressure"}
              /\ w["Location"] = IF "name" \in DOMAIN weather_response.dict
                                 THEN weather_response.dict["name"] ELSE Lit("Unknown")
              /\ w["Temperature"] = FromMain("temp")
              /\ w["Humidity"] = FromMain("humidity")
              /\ w["Pressure"] = FromMain("pressure")
      /\ IsStr(report["Elevation Data"]) <=> TerrainFailed
      /\ TerrainFailed => report["Elevation Data"] = Lit("No elevation data retrieved.")
      /\ ~TerrainFailed =>
           LET first == terrain_response.dict["results"].list[1].dict
           IN report["Elevation Data"].dict =
                ("Elevation (meters)" :>
                   IF "elevation" \in DOMAIN first THEN first["elevation"] ELSE NoData)
      /\ report["Climate Data"] = climate_result
      /\ IsDict(report["Climate Data"])
      /\ report["Soil Data (Depth 0-5cm)"] = [dict |-> soil_answers]
      /\ (WeatherFailed /\ ~TerrainFailed) =>
           {k \in SectionKeys : IsStr(report[k])} = {"Weather Data"}

C9_Witness ==
    /\ pc = "done"
    /\ weather_response = None
    /\ IsStr(report["Weather Data"])
    /\ IsClimateRecord(report["Climate Data"])
    /\ IsDict(report["Elevation Data"])
    /\ \A k \in SoilKeys : IsNum(report["Soil Data (Depth 0-5cm)"].dict[k])

\* C10: get_soil_data sends exactly one request per property, for phh2o, soc,
\* clay, silt, sand, cec, cfvo in this order, and returns a mapping with
\* exactly these seven keys, in which a property is null exactly when its own
\* answer carried no mean and has the mean its own answer carried otherwise:
\* no answer changes or skips another property.
C10_SoilPerProperty ==
    /\ Len(soil_requests) <= 7
    /\ soil_requests = SubSeq(<<"phh2o", "soc", "clay", "silt", "sand", "cec", "cfvo">>,
                              1, Len(soil_requests))
    /\ DOMAIN soil_data = {soil_requests[i] : i \in DOMAIN soil_requests}
    /\ DOMAIN soil_answers = DOMAIN soil_data
    /\ \A p \in DOMAIN soil_data : soil_data[p] = soil_answers[p]
    /\ pc \in {"terrain", "done"} =>
         /\ Len(soil_requests) = 7
         /\ DOMAIN soil_data = SoilKeys
         /\ report["Soil Data (Depth 0-5cm)"] = [dict |-> soil_data]

C10_Witness ==
    /\ pc = "terrain"
    /\ soil_data["phh2o"] = None
    /\ IsNum(soil_data["soc"])
    /\ soil_data["clay"] = None
    /\ IsNum(soil_data["silt"])
    /\ soil_data["silt"] # soil_data["soc"]
    /\ soil_data["cfvo"] = None

\* ------------------------------------------------------------------ the report file: C11-C13

\* The file has been written and read back.
ReadBack == pc \in {"read", "sensor", "raised"}

\* The entry of the report a sensor field is read from is there and a number.
EntryIsNumber(k) ==
    LET section == SensorSource[k][1]
        subkey == SensorSource[k][2]
    IN /\ section \in DOMAIN report
       /\ IsDict(report[section])
       /\ subkey \in DOMAIN report[section].dict
       /\ IsNum(report[section].dict[subkey])

\* C11 as stated: for every report get_location_info produces, written by
\* export_report_to_csv and read by read_report_from_csv,
\* get_sensor_data_from_report returns without raising, and what it returns has
\* exactly the six fields T, H, P, T_avg, AP, pH, each a number or absent, a
\* field being absent exactly when its entry of the report is missing or not
\* a number.
C11_SensorVectorNeverRaises ==
    pc \in {"sensor", "raised"} =>
        /\ pc = "sensor"
        /\ raised = ""
        /\ DOMAIN sensor_data = {"T", "H", "P", "T_avg", "AP", "pH"}
        /\ \A k \in DOMAIN sensor_data :
             /\ sensor_data[k] = None \/ IsNum(sensor_data[k])
             /\ sensor_data[k] = None <=> ~EntryIsNumber(k)

\* C12: for every field of a mapping section of the report whose value is
\* None, the report read back from the file has that section as a mapping and
\* that key in it with the value None, not the text "None".
C12_NoneReadBackAsNone ==
    ReadBack =>
        \A section \in DOMAIN report :
            IsDict(report[section]) =>
                \A key \in DOMAIN report[section].dict :
                    report[section].dict[key] = None =>
                        /\ section \in DOMAIN report_from_csv
                        /\ IsDict(report_from_csv[section])
                        /\ key \in DOMAIN report_from_csv[section].dict
                        /\ report_from_csv[section].dict[key] = None
                        /\ report_from_csv[section].dict[key] # Lit("None")

\* A report with a soil property without a value has been written and read
\* back.
C12_Witness ==
    /\ pc = "read"
    /\ report["Soil Data (Depth 0-5cm)"].dict["phh2o"] = None
    /\ report["Soil Data (Depth 0-5cm)"].dict["soc"] # None
    /\ report_from_csv["Soil Data (Depth 0-5cm)"].dict["phh2o"] = None

\* The report read back has the sections of the report, every section that
\* is a string as that string, and every mapping section with the same keys,
\* the value v of each read back as Back(v).
RoundTrip(Back(_)) ==
    /\ DOMAIN report_from_csv = DOMAIN report
    /\ \A section \in DOMAIN report :
         IF IsDict(report[section])
         THEN /\ IsDict(report_from_csv[section])
              /\ DOMAIN report_from_csv[section].dict = DOMAIN report[section].dict
              /\ \A key \in DOMAIN report[section].dict :
                   report_from_csv[section].dict[key] = Back(report[section].dict[key])
         ELSE report_from_csv[section] = report[section]

\* C13 as stated: the report read back has the same sections and keys, every
\* placeholder string as it was, and every field value v as str(v), None as
\* None; no other value is changed, dropped or made absent.
C13_RoundTripAsStated ==
    ReadBack => RoundTrip(LAMBDA v : IF v = None THEN None ELSE PyStr(v))

\* C13: the report read back has the same sections and keys, every
\* placeholder string as it was, and every field value v as str(v), except
\* that None and the empty string are both read back as None.
C13_RoundTrip ==
    ReadBack => RoundTrip(LAMBDA v : IF v \in {None, EmptyStr} THEN None ELSE PyStr(v))

\* A report with a placeholder section, a number, a text, a None and an empty
\* location name has been written and read back.
C13_Witness ==
    /\ pc = "read"
    /\ IsStr(report["Elevation Data"])
    /\ IsDict(report["Weather Data"])
    /\ report["Weather Data"].dict["Location"] = EmptyStr
    /\ report_from_csv["Weather Data"].dict["Location"] = None
    /\ IsNum(report["Weather Data"].dict["Temperature"])
    /\ report_from_csv["Weather Data"].dict["Temperature"] = Str(IntStr(WeatherReading))
    /\ report["Soil Data (Depth 0-5cm)"].dict["phh2o"] = None
    /\ report_from_csv["Climate Data"].dict["Total Precipitation (PRECTOT)"] = NoData

\* ------------------------------------------------------------------ scoring: C14, C15

\* recommend_crop has returned.
Recommended == pc \in {"recommended", "recommended_again"}

\* 0.0, and 1.0 = exp(-0).
FitnessZero == [exp_minus |-> None]

FitnessOne == [exp_minus |-> IntNum(0)]

\* C14: for a profile set that is not empty and a sensor vector with all its
\* fields, the mapping recommend_crop returns has one entry per crop of the
\* profile set, the crop it returns has the greatest score of the mapping
\* and is the first in the order of the profile set to have it, the score it
\* returns is that crop's entry, and a further call with the same arguments
\* returns the same.
C14_FirstBestCrop ==
    Recommended =>
        LET cf == recommendation.crop_fitness
        IN /\ Len(cf) = Len(optimal_conditions)
           /\ \A i \in DOMAIN cf : cf[i].crop = optimal_conditions[i].crop
           /\ \A i, j \in DOMAIN cf : cf[i].crop = cf[j].crop => i = j
           /\ \E i \in DOMAIN cf :
                /\ recommendation.best_crop = cf[i].crop
                /\ recommendation.best_fitness = cf[i].fitness
                /\ \A j \in DOMAIN cf : ~FitnessLess(cf[i].fitness, cf[j].fitness)
                /\ \A j \in 1..(i - 1) : FitnessLess(cf[j].fitness, cf[i].fitness)
           /\ (pc = "recommended_again" /\ sensor_again = sensor_data)
                => recommendation_again = recommendation

\* Two crops have the same score, the first is returned, and so it is by a
\* second call with the same vector.
C14_Witness ==
    /\ pc = "recommended_again"
    /\ sensor_again = sensor_data
    /\ Len(recommendation.crop_fitness) = 2
    /\ recommendation.crop_fitness[1].fitness = recommendation.crop_fitness[2].fitness
    /\ recommendation.crop_fitness[1].fitness # FitnessOne
    /\ recommendation.best_crop = optimal_conditions[1].crop
    /\ recommendation_again.best_crop = optimal_conditions[1].crop

\* The weight and the optimum of a dimension (lines 245-262).
WeightOf(k) ==
    CASE k = "T" -> params.w_T [] k = "H" -> params.w_H [] k = "P" -> params.w_P
      [] k = "T_avg" -> params.w_Tavg [] k = "AP" -> params.w_AP [] k = "pH" -> params.w_pH

OptimumOf(optimal, k) ==
    CASE k = "T" -> optimal.T_opt [] k = "H" -> optimal.H_opt [] k = "P" -> IntNum(1013)
      [] k = "T_avg" -> optimal.T_opt [] k = "AP" -> optimal.AP_opt [] k = "pH" -> optimal.pH_opt

\* |s_k - o_k|
Distance(sensor, optimal, k) ==
    LET d == RatSub(sensor[k], OptimumOf(optimal, k))
    IN Num(Abs(d.num), d.den)

Positive(w) == w.num > 0

\* The two vectors differ in the dimension k alone.
DifferIn(k) ==
    /\ sensor_again[k] # sensor_data[k]
    /\ \A h \in DOMAIN sensor_data : h # k => sensor_again[h] = sensor_data[h]

\* The scorings made: of every crop, with the vector of either call.
Scorings ==
    {[sensor |-> sensor_data, optimal |-> optimal_conditions[i].optimal,
      fitness |-> recommendation.crop_fitness[i].fitness] : i \in DOMAIN optimal_conditions}
    \cup {[sensor |-> sensor_again, optimal |-> optimal_conditions[i].optimal,
           fitness |-> recommendation_again.crop_fitness[i].fitness] :
            i \in DOMAIN optimal_conditions}

\* The score is 1 when every dimension of positive weight is at its optimum.
OneAtOptimum ==
    \A e \in Scorings :
        (\A k \in DOMAIN e.sensor : Positive(WeightOf(k)) => Distance(e.sensor, e.optimal, k) = IntNum(0))
            => e.fitness = FitnessOne

\* When one dimension of positive weight alone moves away from its optimum
\* the exponent grows; Lower(f, g) is what then holds of the scores f before
\* and g after.
GrowsWithDistance(Lower(_, _)) ==
    \A k \in DOMAIN sensor_data :
        (DifferIn(k) /\ Positive(WeightOf(k))) =>
            \A i \in DOMAIN optimal_conditions :
                LET o == optimal_conditions[i].optimal
                IN RatLess(Distance(sensor_data, o, k), Distance(sensor_again, o, k)) =>
                     /\ RatLess(Exponent(sensor_data, o, params), Exponent(sensor_again, o, params))
                     /\ Lower(recommendation.crop_fitness[i].fitness,
                              recommendation_again.crop_fitness[i].fitness)

Computed == pc \in {"recommend", "recommended"} /\ entry = "load_local_crop_datasets"

\* The first of label, crop, common_name, plant_name among the columns.
FirstIdColumn(columns) ==
    IF "label" \in columns THEN "label"
    ELSE IF "crop" \in columns THEN "crop"
    ELSE IF "common_name" \in columns THEN "common_name"
    ELSE "plant_name"

HasIdColumn(columns) == columns \cap {"label", "crop", "common_name", "plant_name"} # {}

\* The identifier of a row of the files, under a column.
IdUnder(row, col) ==
    IF col \in {"label", "common_name"} THEN row.name
    ELSE IF row.name = "maize" THEN "zea" ELSE "oryza"

\* The places <<file, row>> of the rows of the folder.
Places ==
    UNION {{<<i, j>> : j \in DOMAIN files.tables[i]} : i \in DOMAIN files.tables}

\* C16: the profile set is keyed by the values of the first column present
\* among label, crop, common_name, plant_name, whatever other candidates the
\* table has; and a table with none of them makes compute_optimal_conditions
\* raise, after which there is no profile set and no recommendation.
C16_FirstColumnGroups ==
    /\ Computed =>
         /\ HasIdColumn(df.columns)
         /\ {optimal_conditions[i].crop : i \in DOMAIN optimal_conditions}
              = {IdUnder(df.rows[j], FirstIdColumn(df.columns)) : j \in DOMAIN df.rows}
    /\ (entry = "load_local_crop_datasets" /\ pc \in {"optimal", "raised"}
          /\ ~HasIdColumn(df.columns)) =>
         /\ optimal_conditions = Unset
         /\ recommendation = Unset
         /\ pc = "raised" <=> raised = "KeyError"
    /\ (entry = "load_local_crop_datasets" /\ raised # "") =>
         /\ pc = "raised"
         /\ ~HasIdColumn(df.columns)

\* A table with the columns crop and common_name has been grouped by crop,
\* and the best of its crops recommended.
C16_Witness ==
    /\ pc = "recommended"
    /\ entry = "load_local_crop_datasets"
    /\ df.columns = {"common_name", "crop"}
    /\ Len(optimal_conditions) = 2
    /\ optimal_conditions[1].crop = "oryza"
    /\ optimal_conditions[2].crop = "zea"

\* The sum of a column over the rows at a set of places.
RECURSIVE PlaceSum(_, _)
PlaceSum(S, column) ==
    IF S = {} THEN 0
    ELSE LET p == CHOOSE q \in S : TRUE
         IN files.tables[p[1]][p[2]][column] + PlaceSum(S \ {p}, column)

\* The mean of a column over the rows of a crop in all the files.
PooledMean(crop, col, column) ==
    LET of == {p \in Places : IdUnder(files.tables[p[1]][p[2]], col) = crop}
    IN Num(PlaceSum(of, column), Cardinality(of))

\* C17: the keys of the profile set are the identifiers that occur in any of
\* the files, and the T_opt, H_opt, pH_opt and AP_opt of each are the means
\* of Temperature, Humidity, pH and Rainfall over its rows in all the files
\* together, however few they are.
C17_PooledMeans ==
    Computed =>
        LET col == FirstIdColumn(files.columns)
            ids == {IdUnder(files.tables[p[1]][p[2]], col) : p \in Places}
        IN /\ {optimal_conditions[i].crop : i \in DOMAIN optimal_conditions} = ids
           /\ \A i, j \in DOMAIN optimal_conditions :
                optimal_conditions[i].crop = optimal_conditions[j].crop => i = j
           /\ \A i \in DOMAIN optimal_conditions :
                LET crop == optimal_conditions[i].crop
                    o == optimal_conditions[i].optimal
                IN /\ o.T_opt = PooledMean(crop, col, "Temperature")
                   /\ o.H_opt = PooledMean(crop, col, "Humidity")
                   /\ o.pH_opt = PooledMean(crop, col, "pH")
                   /\ o.AP_opt = PooledMean(crop, col, "Rainfall")

\* Two files: one crop has rows with different readings in both, the other
\* a single row.
C17_Witness ==
    /\ Computed
    /\ Len(files.tables) = 2
    /\ files.columns = {"label"}
    /\ \E j \in DOMAIN files.tables[1], k \in DOMAIN files.tables[2] :
         /\ files.tables[1][j].name = "maize"
         /\ files.tables[2][k].name = "maize"
         /\ files.tables[1][j].Temperature # files.tables[2][k].Temperature
    /\ Cardinality({p \in Places : files.tables[p[1]][p[2]].name = "rice"}) = 1
    /\ Len(optimal_conditions) = 2
    /\ optimal_conditions[1].optimal.T_opt = IntNum(25)

\* ------------------------------------------------------------------ main and on_submit: C18, C20

InWorkflow == entry \in {"main", "on_submit"}

\* prompt_for_missing_data has returned.
Prompted == InWorkflow /\ sensor_data # Unset /\ pc # "sensor"

\* The fields of the vector, as get_sensor_data_from_report left them.
Extracted(k) ==
    LET section == SensorSource[k][1]
        subkey == SensorSource[k][2]
    IN IF subkey \in DOMAIN report_from_csv[section].dict
       THEN report_from_csv[section].dict[subkey]
       ELSE None

Within(v, lo, hi) == v.num >= lo * v.den /\ v.num <= hi * v.den

WithinRange(k, v) ==
    CASE k = "T" -> Within(v, -50, 60) [] k = "H" -> Within(v, 0, 100)
      [] k = "P" -> Within(v, 900, 1100) [] k = "T_avg" -> Within(v, -50, 60)
      [] k = "AP" -> Within(v, 0, 1000) [] k = "pH" -> Within(v, 0, 14)

\* C18: in main and in on_submit, when recommend_crop is called each of the
\* six fields of the sensor vector is a number: once prompt_for_missing_data
\* has returned, every field the report gave no number for holds a number of
\* its valid range, and plant_fitness never raises on an absent field.
C18_NoAbsentFieldScored ==
    /\ (InWorkflow /\ pc \in {"recommend", "recommended"}) =>
         /\ DOMAIN sensor_data = {"T", "H", "P", "T_avg", "AP", "pH"}
         /\ \A k \in DOMAIN sensor_data : IsNum(sensor_data[k])
    /\ Prompted =>
         \A k \in DOMAIN sensor_data :
             IF Extracted(k) \in {None, NoData}
             THEN IsNum(sensor_data[k]) /\ WithinRange(k, sensor_data[k])
             ELSE PyStr(sensor_data[k]) = Extracted(k)
    /\ raised # "TypeError"

\* The report gave no temperature and no pH; an answer was turned down; and
\* recommend_crop has been called.
C18_Witness ==
    /\ pc = "recommended"
    /\ InWorkflow
    /\ Extracted("T_avg") = NoData
    /\ Extracted("pH") = None
    /\ IsNum(sensor_data["T_avg"])
    /\ IsNum(sensor_data["pH"])
    /\ prompts.rejected > 0

\* The identifiers of the rows of the folder, under its grouping column.
FolderIds ==
    {IdUnder(files.tables[p[1]][p[2]], FirstIdColumn(files.columns)) : p \in Places}

\* The mode has been chosen.
ModeChosen == InWorkflow /\ pc # "mode"

SelectiveRun ==
    /\ ModeChosen
    /\ solution_mode = "selective"
    /\ selected_plants # None
    /\ selected_plants.plants # {}

\* C20: in selective mode with a selection that is not empty the crop
\* returned is one of the selected plants; when no row of the dataset is of a
\* selected plant the workflow ends without a call of recommend_crop; and in
\* main an empty selection in mode 2 makes the mode optimal, in which every
\* crop of the dataset is scored.
C20_SelectionRespected ==
    /\ (SelectiveRun /\ pc = "recommended") =>
         recommendation.best_crop \in selected_plants.plants
    /\ (SelectiveRun /\ df \notin {Unset, None} /\ FolderIds \cap selected_plants.plants = {}) =>
         /\ pc \in {"counts", "filter", "stopped", "raised"}
         /\ optimal_conditions = Unset
         /\ recommendation = Unset
    /\ (ModeChosen /\ entry = "main" /\ mode = "2") =>
         IF solution_mode = "selective"
         THEN IF selected_plants = None
              THEN pc = "raised"
              ELSE selected_plants.plants # {}
         ELSE solution_mode = "optimal" /\ selected_plants = None
    /\ (ModeChosen /\ entry = "main" /\ pc = "recommended" /\ solution_mode = "optimal") =>
         {recommendation.crop_fitness[i].crop : i \in DOMAIN recommendation.crop_fitness}
            = FolderIds

\* In selective mode rice is selected with a name the dataset does not have,
\* the dataset has maize as well, and rice is returned.
C20_Witness ==
    /\ pc = "recommended"
    /\ SelectiveRun
    /\ selected_plants.plants = {"rice", "zea"}
    /\ FolderIds = {"maize", "rice"}
    /\ recommendation.best_crop = "rice"
    /\ Len(recommendation.crop_fitness) = 1

\* ------------------------------------------------------------------ get_climate_data ends: C19

\* The three keys of a success record.
HasRecordKeys(r) ==
    DOMAIN r.dict = {"Date Range", "Average Temperature (T2M)", "Total Precipitation (PRECTOT)"}

\* C19: get_climate_data ends, for every requested year, month and budget and
\* every sequence of provider responses, by returning a success record or the
\* error record, never by raising; and its first loop has made exactly
\* max(0, requested year - normalized year) decrements.
C19_EndsWithRecord ==
    /\ raised = ""
    /\ pc # "raised"
    /\ pc = "climate_returned" =>
         \/ IsClimateRecord(climate_result) /\ HasRecordKeys(climate_result)
         \/ climate_result = ClimateError(month, max_years_back, year)
    /\ pc # "normalize" => adjustments = Max(0, year - first_year)

\* ------------------------------------------------------------------ the pressure reading: C21

\* By how much the exponent of the i-th crop differs between the two vectors.
ExponentChange(i) ==
    RatSub(Exponent(sensor_again, optimal_conditions[i].optimal, params),
           Exponent(sensor_data, optimal_conditions[i].optimal, params))

\* The exponent of every crop changes by the same amount.
SameExponentChange ==
    \A i, j \in DOMAIN optimal_conditions : ExponentChange(i) = ExponentChange(j)

\* The crops are ordered by score alike under the two vectors.
SameOrdering ==
    \A i, j \in DOMAIN optimal_conditions :
        FitnessLess(recommendation.crop_fitness[i].fitness,
                    recommendation.crop_fitness[j].fitness)
          <=> FitnessLess(recommendation_again.crop_fitness[i].fitness,
                          recommendation_again.crop_fitness[j].fitness)

\* C21: the pressure reading never changes the recommendation: when the two
\* sensor vectors differ in P alone, the exponent of every crop changes by
\* the same amount, the crops are ordered by score alike under both, and
\* recommend_crop returns the same crop for both.
C21_PressureNeverMatters ==
    (pc = "recommended_again" /\ DifferIn("P")) =>
        /\ SameExponentChange
        /\ SameOrdering
        /\ recommendation_again.best_crop = recommendation.best_crop

====
